---- MODULE Spec2Model ----
(***************************************************************************)
(* Verification model of the closetly2 backend:                            *)
(*   - src/backend/fashion_price_api.py : authentication, profile store,   *)
(*     undertone analyzer (specifications Spec, SpecRace, SpecUndertone)   *)
(*   - src/backend/app.py : price estimator, retailer comparator, batch    *)
(*     estimator (specification SpecPrice)                                 *)
(***************************************************************************)
EXTENDS Integers, Sequences, FiniteSets, TLC

VARIABLES
    users,          \* table users: sequence of rows, in rowid order
    user_profiles,  \* table user_profiles: sequence of rows, in rowid order
    jar,            \* per client: the Flask session cookie it holds
    clock,          \* wall clock, counted in whole PERMANENT_SESSION_LIFETIMEs
    loggedOut,      \* history: the session cookie of the last successful logout
    saved,          \* history: per user id the body of the user's last successful profile save
    resp,           \* the response in flight to a client, NoResp when the server is idle
    pre,            \* history: the two tables as the request in flight found them
    rq,             \* concurrent signup requests: each one's position, locals and answer
    dbLock,         \* the request whose connection holds SQLite's write lock, or NoLock
    out,            \* app.py: the response in flight, NoOut when idle
    sample,         \* undertone analyzer: channel means of the skin sample
    analysis,       \* undertone analyzer: its result, NoAnalysis before it ran
    storage,        \* flask-limiter: per (address, endpoint) the window's count and expiry
    time,           \* time.time() as the limiter reads it, in whole hours
    served,         \* history: per (address, endpoint) the requests handled in the open window
    label_encoders, \* FashionDataPreprocessor: per column the classes_ of its fitted LabelEncoder
    best_model,     \* FashionPricePredictor: the model selected by training, NoModel before
    results,        \* train_all_models in progress: the scores of the models fitted so far
    returned        \* what the last call on the preprocessor or predictor returned or raised

authVars == <<users, user_profiles, jar, clock, loggedOut, saved, resp, pre>>

raceVars == <<rq, dbLock>>

priceVars == <<out>>

toneVars == <<sample, analysis>>

limitVars == <<storage, time, served>>

mlVars == <<label_encoders, best_model, results, returned>>

vars == <<authVars, raceVars, priceVars, toneVars, limitVars, mlVars>>

\* ------------------------------------------------------------------------
\* Python / SQL values
\* ------------------------------------------------------------------------

\* Python None, SQL NULL in a text column
NULL == "NULL"

\* SQL NULL in a TIMESTAMP column (clock values are >= 0)
NullTime == -1

\* SQL NULL in a JSON column
NullText == <<>>

\* Python {} and []
EmptyDict == [t |-> "dict"]
EmptyList == [t |-> "list"]

\* json.dumps(value): the serialized text; json.loads(text): the value back
JsonDumps(value) == <<"json", value>>
JsonLoads(text) == text[2]

\* dict.get(key, default) on a parsed JSON object
Get(data, key, default) == IF key \in DOMAIN data THEN data[key] ELSE default

\* str.lower() on one character
LowerChar(ch) ==
    CASE ch = "A" -> "a"
      [] ch = "B" -> "b"
      [] OTHER -> ch

\* str.lower()
Lower(s) == [i \in 1..Len(s) |-> LowerChar(s[i])]

IsSpace(ch) == ch = " "

RECURSIVE LStrip(_)
LStrip(s) == IF s # <<>> /\ IsSpace(Head(s)) THEN LStrip(Tail(s)) ELSE s

RECURSIVE RStrip(_)
RStrip(s) ==
    IF s # <<>> /\ IsSpace(s[Len(s)]) THEN RStrip(SubSeq(s, 1, Len(s) - 1)) ELSE s

\* str.strip()
Strip(s) == RStrip(LStrip(s))

\* a normalisation that forgets lower()
NormalizeEmailNoLower(raw) == Strip(raw)

\* a normalisation that forgets strip()
NormalizeEmailNoStrip(raw) == Lower(raw)

\* the e-mail key of signup and login: data.get('email', '').strip().lower()
NormalizeEmail(raw) == Lower(Strip(raw))

\* ------------------------------------------------------------------------
\* Bounds of the model and the inputs the requests are drawn from
\* ------------------------------------------------------------------------

MaxClock == 1

Clients == {"c1", "c2"}

PwGood  == <<"p", "a", "s", "s", "w", "o", "r", "d">>
PwOther == <<"l", "e", "t", "m", "e", "i", "n", "1">>
PwShort == <<"p", "w">>

Salts == { "s1" }

\* request.get_json() yielding None instead of an object
NoBody == [nobody |-> TRUE]

SignupBodies ==
    { NoBody,
      [email |-> <<"a">>, password |-> PwGood, full_name |-> <<"N">>],
      [email |-> <<" ", "A">>, password |-> PwGood, full_name |-> <<"N", " ">>],
      [email |-> <<"b">>, password |-> PwOther],
      [email |-> <<"b">>, password |-> PwShort, full_name |-> <<"N">>],
      [email |-> <<" ">>, password |-> PwGood, full_name |-> <<"N">>],
      [email |-> <<"a">>, full_name |-> <<"N">>] }

LoginBodies ==
    { NoBody,
      [email |-> <<"a">>, password |-> PwGood],
      [email |-> <<"A", " ">>, password |-> PwGood],
      [email |-> <<"a">>, password |-> PwOther],
      [email |-> <<"b">>, password |-> PwOther],
      [email |-> <<"b">>, password |-> PwGood],
      [email |-> <<"a">>],
      [password |-> PwGood] }

ProfileBodies ==
    { NoBody,
      [gender |-> "female", body_type |-> "Hourglass",
       measurements |-> [t |-> "dict", bust |-> 90],
       undertone |-> "warm", season |-> "Spring",
       color_palette |-> [t |-> "list", items |-> <<"#FFD700">>],
       skin_analysis |-> [t |-> "dict", yellowness_index |-> 500],
       preferences |-> [t |-> "dict", style |-> "casual"]],
      [undertone |-> "cool", season |-> "Winter"] }

\* values of the variables a specification does not use
NoRequests == <<>>
NoLock == "none"
NoOut == [op |-> "none", data |-> NoBody, status |-> 0, body |-> <<>>, price |-> 0]
NoSample == <<>>
NoSaved == <<>>
NoStorage == <<>>

\* self.label_encoders = {}, self.best_model = None, no training and no call yet
NoEncoders == <<>>
NoModel == [name |-> "None"]
NoResults == <<>>
NoCall == [op |-> "none"]

NoAnalysis == [undertone |-> "none"]

\* ------------------------------------------------------------------------
\* werkzeug.security
\* ------------------------------------------------------------------------

\* generate_password_hash(password): method, fresh salt, digest of salt and password
GeneratePasswordHash(password, salt) ==
    [method |-> "pbkdf2", salt |-> salt, digest |-> <<salt, password>>]

\* a check that accepts every password
CheckPasswordHashAny(pwhash, password) == TRUE

\* check_password_hash(pwhash, password)
CheckPasswordHash(pwhash, password) ==
    pwhash.digest = <<pwhash.salt, password>>

\* ------------------------------------------------------------------------
\* Flask cookie session (flask.session, app.secret_key, PERMANENT_SESSION_LIFETIME)
\* ------------------------------------------------------------------------

NoCookie == [kind |-> "none"]

\* a response without a Set-Cookie header
KeepCookie == [kind |-> "keep"]

EmptySession == [kind |-> "empty"]

\* the session after session['user_id'] = ..., session['email'] = ...
UserSession(user_id, email) == [kind |-> "user", user_id |-> user_id, email |-> email]

\* the signed cookie the response carries for a non-empty session
SignCookie(sess, now) ==
    [kind |-> "signed", user_id |-> sess.user_id, email |-> sess.email, iat |-> now]

\* an open_session that never lets a signed cookie expire
OpenSessionForever(cookie) ==
    IF cookie.kind = "signed"
    THEN UserSession(cookie.user_id, cookie.email)
    ELSE EmptySession

\* open_session: a cookie with a good signature and within the lifetime yields
\* its payload, anything else an empty session
OpenSession(cookie) ==
    IF cookie.kind = "signed" /\ cookie.iat = clock
    THEN UserSession(cookie.user_id, cookie.email)
    ELSE EmptySession

\* 'user_id' in session
HasUserId(sess) == sess.kind = "user"

\* save_session: a permanent non-empty session is re-signed on every response;
\* a session emptied by the handler deletes the cookie; an untouched empty
\* session sends no Set-Cookie
SaveSession(sess, modified) ==
    IF sess.kind = "user"
    THEN SignCookie(sess, clock)
    ELSE IF modified THEN NoCookie ELSE KeepCookie

\* ------------------------------------------------------------------------
\* SQL helpers over the two tables
\* ------------------------------------------------------------------------

\* SELECT ... FROM users WHERE email = ?  (rows matching)
UsersByEmail(email) == { i \in 1..Len(users) : users[i].email = email }

\* SELECT ... FROM user_profiles WHERE user_id = ?
ProfilesByUser(uid) == { i \in 1..Len(user_profiles) : user_profiles[i].user_id = uid }

\* INTEGER PRIMARY KEY AUTOINCREMENT: rows are never deleted
NextUserId == Len(users) + 1

\* an empty profile row that is always given to the first user
EmptyProfileRowOfFirstUser(uid) ==
    [user_id |-> 1, gender |-> NULL, body_type |-> NULL, measurements |-> NullText,
     undertone |-> NULL, season |-> NULL, color_palette |-> NullText,
     skin_analysis |-> NullText, preferences |-> JsonDumps(EmptyDict)]

\* the row INSERT INTO user_profiles (user_id, preferences) VALUES (?, '{}') creates
\* (the columns created_at and updated_at are written but read by no endpoint;
\* they are left out of the rows)
EmptyProfileRow(uid) ==
    [user_id |-> uid, gender |-> NULL, body_type |-> NULL, measurements |-> NullText,
     undertone |-> NULL, season |-> NULL, color_palette |-> NullText,
     skin_analysis |-> NullText, preferences |-> JsonDumps(EmptyDict)]

\* ------------------------------------------------------------------------
\* Responses
\* ------------------------------------------------------------------------

NoResp ==
    [op |-> "none", client |-> "none", data |-> NoBody, cookie |-> NoCookie,
     status |-> 0, body |-> <<>>, set_cookie |-> KeepCookie]

\* the answer of endpoint op to client c, whose request carried the JSON body
\* data and the cookie jar[c]; sess is the session as the handler leaves it
Response(op, c, data, status, body, sess, modified) ==
    [op |-> op, client |-> c, data |-> data, cookie |-> jar[c], status |-> status,
     body |-> body, set_cookie |-> SaveSession(sess, modified)]

\* the answer of a handler that leaves the session as the request opened it
Reply(op, c, data, status, body) ==
    Response(op, c, data, status, body, OpenSession(jar[c]), FALSE)

ErrorBody(msg) == [error |-> msg, success |-> FALSE]

\* the server handles one request at a time, to completion
Idle == resp = NoResp

NoPre == [users |-> <<>>, user_profiles |-> <<>>]

\* the tables as a request finds them
Snapshot == [users |-> users, user_profiles |-> user_profiles]

\* ------------------------------------------------------------------------
\* POST /api/auth/signup
\* ------------------------------------------------------------------------

\* the handler's answer and effect once the body is a JSON object
SignupHandled(c, data, salt) ==
    LET email == NormalizeEmail(Get(data, "email", <<>>))
        password == Get(data, "password", <<>>)
        full_name == Strip(Get(data, "full_name", <<>>))
        user_id == NextUserId
    IN  IF email = <<>> \/ password = <<>>
        THEN /\ resp' = Reply("signup", c, data, 400, ErrorBody("Email and password required"))
             /\ UNCHANGED <<users, user_profiles>>
        ELSE IF Len(password) < 8
        THEN /\ resp' = Reply("signup", c, data, 400,
                              ErrorBody("Password must be at least 8 characters"))
             /\ UNCHANGED <<users, user_profiles>>
        ELSE IF UsersByEmail(email) # {}
        THEN /\ resp' = Reply("signup", c, data, 409, ErrorBody("Email already registered"))
             /\ UNCHANGED <<users, user_profiles>>
        ELSE /\ users' = Append(users,
                    [id |-> user_id, email |-> email,
                     password_hash |-> GeneratePasswordHash(password, salt),
                     full_name |-> full_name, last_login |-> NullTime])
             /\ user_profiles' = Append(user_profiles, EmptyProfileRow(user_id))
             /\ resp' = Response("signup", c, data, 201,
                    [success |-> TRUE,
                     user |-> [id |-> user_id, email |-> email, full_name |-> full_name],
                     message |-> "Account created successfully"],
                    UserSession(user_id, email), TRUE)

Signup(c, data, salt) ==
    /\ Idle
    /\ pre' = Snapshot
    /\ IF data = NoBody
       THEN \* data.get raises AttributeError, caught by the handler's except
            /\ resp' = Reply("signup", c, data, 500, ErrorBody("AttributeError"))
            /\ UNCHANGED <<users, user_profiles>>
       ELSE SignupHandled(c, data, salt)
    /\ UNCHANGED <<jar, clock, loggedOut, saved>>
    /\ UNCHANGED <<raceVars, priceVars, toneVars>>

\* ------------------------------------------------------------------------
\* POST /api/auth/login
\* ------------------------------------------------------------------------

\* UPDATE users SET last_login = ? WHERE id = ?, without its WHERE clause
UpdateLastLoginEveryRow(rows, id, now) ==
    [j \in 1..Len(rows) |-> [rows[j] EXCEPT !.last_login = now]]

\* UPDATE users SET last_login = ? WHERE id = ?
UpdateLastLogin(rows, id, now) ==
    [j \in 1..Len(rows) |->
        IF rows[j].id = id THEN [rows[j] EXCEPT !.last_login = now] ELSE rows[j]]

LoginHandled(c, data) ==
    LET email == NormalizeEmail(Get(data, "email", <<>>))
        password == Get(data, "password", <<>>)
        found == UsersByEmail(email)
    IN  IF email = <<>> \/ password = <<>>
        THEN /\ resp' = Reply("login", c, data, 400, ErrorBody("Email and password required"))
             /\ UNCHANGED users
        ELSE IF found = {} \/
                ~CheckPasswordHash(users[CHOOSE i \in found : TRUE].password_hash, password)
        THEN /\ resp' = Reply("login", c, data, 401, ErrorBody("Invalid email or password"))
             /\ UNCHANGED users
        ELSE LET i == CHOOSE i \in found : TRUE
                 user == users[i]
             IN  /\ users' = UpdateLastLogin(users, user.id, clock)
                 /\ resp' = Response("login", c, data, 200,
                        [success |-> TRUE,
                         user |-> [id |-> user.id, email |-> user.email,
                                   full_name |-> user.full_name],
                         message |-> "Login successful"],
                        UserSession(user.id, user.email), TRUE)

Login(c, data) ==
    /\ Idle
    /\ pre' = Snapshot
    /\ IF data = NoBody
       THEN /\ resp' = Reply("login", c, data, 500, ErrorBody("AttributeError"))
            /\ UNCHANGED users
       ELSE LoginHandled(c, data)
    /\ UNCHANGED <<user_profiles, jar, clock, loggedOut, saved>>
    /\ UNCHANGED <<raceVars, priceVars, toneVars>>

\* ------------------------------------------------------------------------
\* POST /api/auth/logout, GET /api/auth/check
\* ------------------------------------------------------------------------

Logout(c) ==
    /\ Idle
    /\ pre' = Snapshot
    /\ resp' = Response("logout", c, NoBody, 200,
                        [success |-> TRUE, message |-> "Logged out successfully"],
                        EmptySession, TRUE)
    /\ loggedOut' = IF HasUserId(OpenSession(jar[c])) THEN jar[c] ELSE loggedOut
    /\ UNCHANGED <<users, user_profiles, jar, clock, saved>>
    /\ UNCHANGED <<raceVars, priceVars, toneVars, limitVars, mlVars>>

CheckAuth(c) ==
    LET sess == OpenSession(jar[c])
    IN  /\ Idle
        /\ pre' = Snapshot
        /\ resp' = IF HasUserId(sess)
                   THEN Reply("check", c, NoBody, 200,
                            [authenticated |-> TRUE, user_id |-> sess.user_id,
                             email |-> sess.email])
                   ELSE Reply("check", c, NoBody, 401, [authenticated |-> FALSE])
        /\ UNCHANGED <<users, user_profiles, jar, clock, loggedOut, saved>>
        /\ UNCHANGED <<raceVars, priceVars, toneVars, limitVars, mlVars>>

\* ------------------------------------------------------------------------
\* POST /api/profile/save, GET /api/profile/get
\* ------------------------------------------------------------------------

\* an UPDATE that stores nothing
UpdateProfileNothing(row, data) == row

\* an update of the columns the body names only
UpdateProfileMerging(row, data) ==
    [row EXCEPT
        !.gender = Get(data, "gender", row.gender),
        !.body_type = Get(data, "body_type", row.body_type),
        !.measurements = IF "measurements" \in DOMAIN data
                         THEN JsonDumps(data.measurements) ELSE row.measurements,
        !.undertone = Get(data, "undertone", row.undertone),
        !.season = Get(data, "season", row.season),
        !.color_palette = IF "color_palette" \in DOMAIN data
                          THEN JsonDumps(data.color_palette) ELSE row.color_palette,
        !.skin_analysis = IF "skin_analysis" \in DOMAIN data
                          THEN JsonDumps(data.skin_analysis) ELSE row.skin_analysis,
        !.preferences = IF "preferences" \in DOMAIN data
                        THEN JsonDumps(data.preferences) ELSE row.preferences]

\* UPDATE user_profiles SET ... WHERE user_id = ?
UpdateProfile(row, data) ==
    [row EXCEPT
        !.gender = Get(data, "gender", NULL),
        !.body_type = Get(data, "body_type", NULL),
        !.measurements = JsonDumps(Get(data, "measurements", EmptyDict)),
        !.undertone = Get(data, "undertone", NULL),
        !.season = Get(data, "season", NULL),
        !.color_palette = JsonDumps(Get(data, "color_palette", EmptyList)),
        !.skin_analysis = JsonDumps(Get(data, "skin_analysis", EmptyDict)),
        !.preferences = JsonDumps(Get(data, "preferences", EmptyDict))]

SaveProfile(c, data) ==
    LET sess == OpenSession(jar[c])
    IN  /\ Idle
        /\ pre' = Snapshot
        /\ IF ~HasUserId(sess)
           THEN /\ resp' = Reply("save", c, data, 401, ErrorBody("Not authenticated"))
                /\ UNCHANGED <<user_profiles, saved>>
           ELSE IF data = NoBody
           THEN /\ resp' = Reply("save", c, data, 500, ErrorBody("AttributeError"))
                /\ UNCHANGED <<user_profiles, saved>>
           ELSE /\ user_profiles' =
                     [i \in 1..Len(user_profiles) |->
                        IF user_profiles[i].user_id = sess.user_id
                        THEN UpdateProfile(user_profiles[i], data)
                        ELSE user_profiles[i]]
                /\ resp' = Reply("save", c, data, 200,
                                 [success |-> TRUE, message |-> "Profile saved"])
                /\ saved' = [uid \in DOMAIN saved \cup {sess.user_id} |->
                                IF uid = sess.user_id THEN data ELSE saved[uid]]
        /\ UNCHANGED <<users, jar, clock, loggedOut>>
        /\ UNCHANGED <<raceVars, priceVars, toneVars, limitVars, mlVars>>

\* the default whatever the column holds
LoadsOrDefault(text, default) == default

\* json.loads(text) if text else default
LoadsOr(text, default) == IF text # NullText THEN JsonLoads(text) ELSE default

\* the profile object of the /api/profile/get answer
ProfileView(row) ==
    [gender |-> row.gender, body_type |-> row.body_type,
     measurements |-> LoadsOr(row.measurements, EmptyDict),
     undertone |-> row.undertone, season |-> row.season,
     color_palette |-> LoadsOr(row.color_palette, EmptyList),
     skin_analysis |-> LoadsOr(row.skin_analysis, EmptyDict),
     preferences |-> LoadsOr(row.preferences, EmptyDict)]

GetProfile(c) ==
    LET sess == OpenSession(jar[c])
        found == IF HasUserId(sess) THEN ProfilesByUser(sess.user_id) ELSE {}
    IN  /\ Idle
        /\ pre' = Snapshot
        /\ resp' =
             IF ~HasUserId(sess)
             THEN Reply("get", c, NoBody, 401, ErrorBody("Not authenticated"))
             ELSE IF found # {}
             THEN Reply("get", c, NoBody, 200,
                        [success |-> TRUE,
                         profile |-> ProfileView(
                             user_profiles[CHOOSE i \in found : \A j \in found : i <= j])])
             ELSE Reply("get", c, NoBody, 200, [success |-> TRUE, profile |-> NULL])
        /\ UNCHANGED <<users, user_profiles, jar, clock, loggedOut, saved>>
        /\ UNCHANGED <<raceVars, priceVars, toneVars, limitVars, mlVars>>

\* ------------------------------------------------------------------------
\* GET /api/recommendations/get
\* ------------------------------------------------------------------------

\* the (gender, body type) entries of BODY_TYPE_RECOMMENDATIONS; an entry
\* stands for its block of texts
BODY_TYPE_RECOMMENDATIONS ==
    [gender \in {"women", "men", "unisex"} |->
        CASE gender = "women" ->
               {"Hourglass", "Pear", "Apple", "Rectangle", "Inverted Triangle"}
          [] gender = "men" ->
               {"Athletic", "Rectangle", "Inverted Triangle", "Trapezoid", "Oval"}
          [] gender = "unisex" -> {"Balanced", "Linear"}]

\* PersonalizedRecommendations.get_recommendations: the entry of the profile's
\* gender and body type, the unisex Balanced entry when there is none
Recommendations(user_profile) ==
    IF /\ user_profile.gender \in DOMAIN BODY_TYPE_RECOMMENDATIONS
       /\ user_profile.body_type \in BODY_TYPE_RECOMMENDATIONS[user_profile.gender]
    THEN [gender |-> user_profile.gender, body_type |-> user_profile.body_type]
    ELSE [gender |-> "unisex", body_type |-> "Balanced"]

\* a test that finds every profile complete
ProfileIncompleteNever(found) == FALSE

\* not profile or not profile[1]: no row, or a NULL or empty body_type
ProfileIncomplete(found) ==
    \/ found = {}
    \/ user_profiles[CHOOSE i \in found : TRUE].body_type \in {NULL, ""}

GetRecommendations(c) ==
    LET sess == OpenSession(jar[c])
        found == IF HasUserId(sess) THEN ProfilesByUser(sess.user_id) ELSE {}
    IN  /\ Idle
        /\ pre' = Snapshot
        /\ resp' =
             IF ~HasUserId(sess)
             THEN Reply("recommend", c, NoBody, 401, ErrorBody("Not authenticated"))
             ELSE IF ProfileIncomplete(found)
             THEN Reply("recommend", c, NoBody, 400,
                        ErrorBody("Profile incomplete. Complete assessment first."))
             ELSE LET row == user_profiles[CHOOSE i \in found : TRUE]
                      user_profile ==
                          [gender |-> row.gender, body_type |-> row.body_type,
                           undertone |-> row.undertone, season |-> row.season,
                           color_palette |-> LoadsOr(row.color_palette, EmptyList)]
                  IN  Reply("recommend", c, NoBody, 200,
                            [success |-> TRUE,
                             recommendations |-> Recommendations(user_profile),
                             user_profile |-> user_profile])
        /\ UNCHANGED <<users, user_profiles, jar, clock, loggedOut, saved>>
        /\ UNCHANGED <<raceVars, priceVars, toneVars, limitVars, mlVars>>

\* ------------------------------------------------------------------------
\* Environment: the client, and time
\* ------------------------------------------------------------------------

\* a delivery that hands the response's cookie to every client
DeliverToAll ==
    /\ ~Idle
    /\ jar' = IF resp.set_cookie = KeepCookie THEN jar
              ELSE [c \in Clients |-> resp.set_cookie]
    /\ resp' = NoResp
    /\ pre' = NoPre
    /\ UNCHANGED <<users, user_profiles, clock, loggedOut, saved>>
    /\ UNCHANGED <<raceVars, priceVars, toneVars, limitVars, mlVars>>

\* the client receives the response and obeys its Set-Cookie header
Deliver ==
    /\ ~Idle
    /\ jar' = IF resp.set_cookie = KeepCookie THEN jar
              ELSE [jar EXCEPT ![resp.client] = resp.set_cookie]
    /\ resp' = NoResp
    /\ pre' = NoPre
    /\ UNCHANGED <<users, user_profiles, clock, loggedOut, saved>>
    /\ UNCHANGED <<raceVars, priceVars, toneVars, limitVars, mlVars>>

\* more than PERMANENT_SESSION_LIFETIME passes: every cookie signed so far is stale
LifetimeElapses ==
    /\ Idle
    /\ clock < MaxClock
    /\ clock' = clock + 1
    /\ UNCHANGED <<users, user_profiles, jar, loggedOut, saved, resp, pre>>
    /\ UNCHANGED <<raceVars, priceVars, toneVars, limitVars, mlVars>>

\* a client presents again a cookie that was held before a logout
Replay(c) ==
    /\ Idle
    /\ loggedOut # NoCookie
    /\ jar[c] # loggedOut
    /\ jar' = [jar EXCEPT ![c] = loggedOut]
    /\ UNCHANGED <<users, user_profiles, clock, loggedOut, saved, resp, pre>>
    /\ UNCHANGED <<raceVars, priceVars, toneVars, limitVars, mlVars>>

\* ------------------------------------------------------------------------
\* Claims about the authentication / profile server (specification Spec)
\* ------------------------------------------------------------------------

\* the session the next request of client c opens, once the response in
\* flight (if it is c's) has been delivered
SessionAfter(c) ==
    OpenSession(IF resp.client = c /\ resp.set_cookie # KeepCookie
                THEN resp.set_cookie ELSE jar[c])

\* C2: after a successful logout, a request to /api/auth/check,
\* /api/profile/get or /api/profile/save that presents the cookie the client
\* held before the logout is answered 401.
C2_LoggedOutCookieRejected ==
    (resp.op \in {"check", "get", "save"} /\ loggedOut # NoCookie
        /\ resp.cookie = loggedOut)
    => resp.status = 401

\* the raw e-mail named a user of the users table when the request arrived
Registered(raw) ==
    \E i \in 1..Len(pre.users) : pre.users[i].email = Lower(Strip(raw))

\* C3: a signup whose e-mail, trimmed and lower-cased, is already registered
\* creates no row in users or user_profiles, and, its password passing the
\* validation that precedes the lookup, is answered 409.
C3_DuplicateSignupRejected ==
    (resp.op = "signup" /\ "email" \in DOMAIN resp.data /\ Registered(resp.data.email))
    => /\ users = pre.users
       /\ user_profiles = pre.user_profiles
       /\ resp.status \in {400, 409}
       /\ ("password" \in DOMAIN resp.data /\ Len(resp.data.password) >= 8)
             => resp.status = 409

\* C3 witness: a signup for " A" was answered 409 because "a" is registered
C3_Witness ==
    /\ resp.op = "signup"
    /\ resp.status = 409
    /\ resp.data.email = <<" ", "A">>
    /\ \E i \in 1..Len(users) : users[i].email = <<"a">>

\* C9: every error response has the body {success: false, error: <message>}.
C9_UniformErrorBody ==
    resp.status >= 400
    => /\ "success" \in DOMAIN resp.body
       /\ "error" \in DOMAIN resp.body
       /\ resp.body.success = FALSE

\* the login body names a registered user and carries a non-empty password
\* that is not the one the user signed up with
WrongPassword(data) ==
    /\ {"email", "password"} \subseteq DOMAIN data
    /\ data.password # <<>>
    /\ \E i \in 1..Len(pre.users) :
          /\ pre.users[i].email = Lower(Strip(data.email))
          /\ pre.users[i].password_hash.digest[2] # data.password

\* C10: a login with a registered e-mail and a wrong password is answered 401,
\* leaves the client's session as its request carried it, and changes no users
\* row (so no last_login).
C10_WrongPasswordLogin ==
    (resp.op = "login" /\ WrongPassword(resp.data))
    => /\ resp.status = 401
       /\ users = pre.users
       /\ SessionAfter(resp.client) = OpenSession(resp.cookie)

\* C10 witness: user "a" exists and a login for "a" with another password
\* was answered 401
C10_Witness ==
    /\ resp.op = "login"
    /\ resp.status = 401
    /\ resp.data = [email |-> <<"a">>, password |-> PwOther]
    /\ \E i \in 1..Len(users) : users[i].email = <<"a">>

\* ------------------------------------------------------------------------
\* Two concurrent signup requests (specification SpecRace): each runs the
\* handler on its own sqlite3 connection; the statements of the two
\* interleave, and SQLite lets one connection write at a time
\* ------------------------------------------------------------------------

RaceReqs == {"r1", "r2"}

RaceBodies ==
    { [email |-> <<"a">>, password |-> PwGood, full_name |-> <<"N">>],
      [email |-> <<" ", "A">>, password |-> PwGood, full_name |-> <<"N", " ">>],
      [email |-> <<"b">>, password |-> PwOther],
      [email |-> <<"b">>, password |-> PwShort, full_name |-> <<"N">>],
      NoBody }

NoRow == [id |-> 0]

\* a request before its handler starts
NewRequest(data) ==
    [pc |-> "start", data |-> data, status |-> 0, body |-> <<>>,
     session |-> EmptySession, user |-> NoRow, profile |-> NoRow]

\* the request is answered
Answer(r, status, body, sess) ==
    [rq EXCEPT ![r].pc = "done", ![r].status = status, ![r].body = body,
               ![r].session = sess]

\* validation, then SELECT id FROM users WHERE email = ? on the committed table
RaceSelect(r) ==
    LET data == rq[r].data
        email == NormalizeEmail(Get(data, "email", <<>>))
        password == Get(data, "password", <<>>)
    IN  /\ rq[r].pc = "start"
        /\ rq' = IF data = NoBody
                 THEN Answer(r, 500, ErrorBody("AttributeError"), EmptySession)
                 ELSE IF email = <<>> \/ password = <<>>
                 THEN Answer(r, 400, ErrorBody("Email and password required"),
                             EmptySession)
                 ELSE IF Len(password) < 8
                 THEN Answer(r, 400, ErrorBody("Password must be at least 8 characters"),
                             EmptySession)
                 ELSE IF UsersByEmail(email) # {}
                 THEN Answer(r, 409, ErrorBody("Email already registered"), EmptySession)
                 ELSE [rq EXCEPT ![r].pc = "insert_user"]
        /\ UNCHANGED <<users, user_profiles, dbLock>>
        /\ UNCHANGED <<jar, clock, loggedOut, saved, resp, pre, priceVars, toneVars, limitVars, mlVars>>

\* INSERT INTO users: takes the write lock; users.email is UNIQUE, so a row
\* committed since the SELECT makes the statement raise IntegrityError, which
\* the handler's except turns into 500 (the connection is dropped, its
\* transaction rolled back)
RaceInsertUser(r, salt) ==
    LET data == rq[r].data
        email == NormalizeEmail(Get(data, "email", <<>>))
        user_id == NextUserId
    IN  /\ rq[r].pc = "insert_user"
        /\ dbLock = NoLock
        /\ IF UsersByEmail(email) # {}
           THEN /\ rq' = Answer(r, 500, ErrorBody("IntegrityError"), EmptySession)
                /\ UNCHANGED dbLock
           ELSE /\ rq' = [rq EXCEPT ![r].pc = "insert_profile",
                            ![r].user =
                               [id |-> user_id, email |-> email,
                                password_hash |->
                                    GeneratePasswordHash(data.password, salt),
                                full_name |-> Strip(Get(data, "full_name", <<>>)),
                                last_login |-> NullTime]]
                /\ dbLock' = r
        /\ UNCHANGED <<users, user_profiles>>
        /\ UNCHANGED <<jar, clock, loggedOut, saved, resp, pre, priceVars, toneVars, limitVars, mlVars>>

\* the other connection holds the write lock for longer than sqlite3's busy
\* timeout: OperationalError (database is locked), answered 500
RaceBusyTimeout(r) ==
    /\ rq[r].pc = "insert_user"
    /\ dbLock \notin {NoLock, r}
    /\ rq' = Answer(r, 500, ErrorBody("OperationalError"), EmptySession)
    /\ UNCHANGED <<users, user_profiles, dbLock>>
    /\ UNCHANGED <<jar, clock, loggedOut, saved, resp, pre, priceVars, toneVars, limitVars, mlVars>>

\* INSERT INTO user_profiles (user_id, preferences), in the same transaction
RaceInsertProfile(r) ==
    /\ rq[r].pc = "insert_profile"
    /\ rq' = [rq EXCEPT ![r].pc = "commit",
                        ![r].profile = EmptyProfileRow(rq[r].user.id)]
    /\ UNCHANGED <<users, user_profiles, dbLock>>
    /\ UNCHANGED <<jar, clock, loggedOut, saved, resp, pre, priceVars, toneVars, limitVars, mlVars>>

\* conn.commit(), then the session is set and 201 returned
RaceCommit(r) ==
    LET user == rq[r].user
    IN  /\ rq[r].pc = "commit"
        /\ users' = Append(users, user)
        /\ user_profiles' = Append(user_profiles, rq[r].profile)
        /\ dbLock' = NoLock
        /\ rq' = Answer(r, 201,
                    [success |-> TRUE,
                     user |-> [id |-> user.id, email |-> user.email,
                               full_name |-> user.full_name],
                     message |-> "Account created successfully"],
                    UserSession(user.id, user.email))
        /\ UNCHANGED <<jar, clock, loggedOut, saved, resp, pre, priceVars, toneVars, limitVars, mlVars>>

InitRace ==
    /\ users = <<>>
    /\ user_profiles = <<>>
    /\ jar = [c \in Clients |-> NoCookie]
    /\ clock = 0
    /\ loggedOut = NoCookie
    /\ saved = NoSaved
    /\ resp = NoResp
    /\ pre = NoPre
    /\ rq \in { [r \in RaceReqs |-> NewRequest(d[r])] : d \in [RaceReqs -> RaceBodies] }
    /\ dbLock = NoLock
    /\ out = NoOut
    /\ sample = NoSample
    /\ analysis = NoAnalysis
    /\ storage = NoStorage
    /\ time = 0
    /\ served = NoStorage
    /\ label_encoders = NoEncoders
    /\ best_model = NoModel
    /\ results = NoResults
    /\ returned = NoCall

NextRace ==
    \/ \E r \in RaceReqs : RaceSelect(r)
    \/ \E r \in RaceReqs, salt \in Salts : RaceInsertUser(r, salt)
    \/ \E r \in RaceReqs : RaceBusyTimeout(r)
    \/ \E r \in RaceReqs : RaceInsertProfile(r)
    \/ \E r \in RaceReqs : RaceCommit(r)

SpecRace == InitRace /\ [][NextRace]_vars

\* the e-mail key of a request that passes signup's validation, <<>> otherwise
ValidSignupKey(data) ==
    IF /\ {"email", "password"} \subseteq DOMAIN data
       /\ Len(data.password) >= 8
    THEN Lower(Strip(data.email))
    ELSE <<>>

\* C4: of two concurrent valid signups with the same normalized e-mail, one
\* creates the single user row (201) and the other is answered 409, whatever
\* the interleaving.
C4_ConcurrentDuplicateSignup ==
    \A r1, r2 \in RaceReqs :
        (/\ r1 # r2
         /\ rq[r1].pc = "done" /\ rq[r2].pc = "done"
         /\ ValidSignupKey(rq[r1].data) # <<>>
         /\ ValidSignupKey(rq[r1].data) = ValidSignupKey(rq[r2].data))
        => /\ Cardinality(UsersByEmail(ValidSignupKey(rq[r1].data))) = 1
           /\ {rq[r1].status, rq[r2].status} = {201, 409}

\* ------------------------------------------------------------------------
\* The price service of app.py (specification SpecPrice).  Money is exact:
\* a price is an integer count of 1/10000 rupee, a rounded price an integer
\* count of paise (1/100 rupee).  random.uniform and random.choice are
\* draws from finite samples of their ranges.
\* ------------------------------------------------------------------------

\* BRAND_PRICES: (min, max) in rupees
BRAND_PRICES ==
    [b \in {"Van Heusen", "Allen Solly", "Louis Philippe", "Peter England",
            "Raymond", "AND", "Vero Moda", "Forever New", "Marks & Spencer",
            "Zara", "Levi's", "Nike", "Adidas", "H&M", "Being Human"} |->
        CASE b = "Van Heusen" -> <<800, 2500>>
          [] b = "Allen Solly" -> <<900, 2800>>
          [] b = "Louis Philippe" -> <<1000, 3500>>
          [] b = "Peter England" -> <<600, 2000>>
          [] b = "Raymond" -> <<1200, 5000>>
          [] b = "AND" -> <<800, 3000>>
          [] b = "Vero Moda" -> <<1000, 3500>>
          [] b = "Forever New" -> <<1200, 4000>>
          [] b = "Marks & Spencer" -> <<1500, 5500>>
          [] b = "Zara" -> <<1500, 6000>>
          [] b = "Levi's" -> <<1500, 4000>>
          [] b = "Nike" -> <<1200, 5000>>
          [] b = "Adidas" -> <<1000, 4500>>
          [] b = "H&M" -> <<500, 2000>>
          [] b = "Being Human" -> <<700, 2000>>]

\* a wider range for a brand outside BRAND_PRICES
FallbackRangeWide == <<1500, 6000>>

\* the range used for a brand outside BRAND_PRICES
FallbackRange == <<500, 2000>>

\* CATEGORY_MULTIPLIERS, in tenths
CATEGORY_MULTIPLIERS ==
    [c \in {"Jeans", "Dress", "Shirt", "Blazer", "T-Shirt", "Jacket", "Sweater",
            "Pants", "Skirt", "Suits"} |->
        CASE c = "Jeans" -> 10 [] c = "Dress" -> 12 [] c = "Shirt" -> 8
          [] c = "Blazer" -> 16 [] c = "T-Shirt" -> 4 [] c = "Jacket" -> 15
          [] c = "Sweater" -> 9 [] c = "Pants" -> 9 [] c = "Skirt" -> 8
          [] c = "Suits" -> 30]

\* RETAILER_ADJUSTMENTS, in hundredths
RETAILER_ADJUSTMENTS ==
    [r \in {"Myntra", "Ajio", "Flipkart", "Amazon India", "Lifestyle", "Westside",
            "Shoppers Stop"} |->
        CASE r = "Myntra" -> 100 [] r = "Ajio" -> 98 [] r = "Flipkart" -> 95
          [] r = "Amazon India" -> 95 [] r = "Lifestyle" -> 115
          [] r = "Westside" -> 110 [] r = "Shoppers Stop" -> 120]

\* BRAND_PRICES[brand] if brand in BRAND_PRICES else (500, 2000)
BrandRange(brand) ==
    IF brand \in DOMAIN BRAND_PRICES THEN BRAND_PRICES[brand] ELSE FallbackRange

\* a lookup that prices an unknown category as a Shirt
CategoryMultAsShirt(category) ==
    IF category \in DOMAIN CATEGORY_MULTIPLIERS THEN CATEGORY_MULTIPLIERS[category] ELSE 8

\* CATEGORY_MULTIPLIERS.get(category, 1.0), in tenths
CategoryMult(category) ==
    IF category \in DOMAIN CATEGORY_MULTIPLIERS THEN CATEGORY_MULTIPLIERS[category] ELSE 10

\* RETAILER_ADJUSTMENTS.get(retailer, 1.0), in hundredths
RetailerAdj(retailer) ==
    IF retailer \in DOMAIN RETAILER_ADJUSTMENTS THEN RETAILER_ADJUSTMENTS[retailer] ELSE 100

\* random.uniform(base_min, base_max): the draw u picks the minimum, the
\* midpoint or the maximum of the range (rupees)
BaseDraws == 0..2
UniformBase(range, u) == range[1] + ((range[2] - range[1]) * u) \div 2

\* draws of a jitter ranging over 0.90 .. 1.11
JittersWide == {9000, 10000, 11100}

\* random.uniform(0.95, 1.05), in 1/10000
Jitters == {9500, 9980, 10000, 10500}

\* base_price * category_mult * retailer_adj * jitter, in 1/10000 rupee.
\* Every base is a multiple of 50 and every jitter of 20, so the division
\* by 1000 is exact.
Price(base, cat10, ret100, jitter) == ((base * jitter) \div 1000) * cat10 * ret100

\* n / d rounded to the nearest integer, ties to even (d > 0)
RoundHalfEven(n, d) ==
    LET q == n \div d
        r == n % d
    IN  IF 2 * r < d THEN q
        ELSE IF 2 * r > d THEN q + 1
        ELSE IF q % 2 = 0 THEN q ELSE q + 1

\* round(x * pct / 100, 2) in paise, for x in 1/10000 rupee
RoundPct(x, pct) == (x \div 10000) * pct + RoundHalfEven((x % 10000) * pct, 10000)

\* round(x, 2) in paise
Round2(x) == RoundPct(x, 100)

\* a JSON object with no key
EmptyObject == [k \in {} |-> TRUE]

\* the objects {key: v} for v in values, and the object without the key
Optional(key, values) == {EmptyObject} \cup { key :> v : v \in values }

PredictBodies ==
    {NoBody} \cup
    { b @@ c @@ r @@ d :
        b \in Optional("brand", {"H&M", "Zara", "Van Heusen", "Acme"}),
        c \in Optional("category", {"T-Shirt", "Suits", "Hat"}),
        r \in Optional("retailer", {"Ajio", "Shoppers Stop", "Kart"}),
        d \in Optional("discount_percent", {-5, 0, 10, 25, 100, 150}) }

\* the price service is between requests
PriceIdle == out = NoOut

\* jsonify({'error': str(e), 'success': False}), status
PriceError(op, data, status, msg) ==
    [op |-> op, data |-> data, status |-> status, body |-> ErrorBody(msg),
     price |-> 0]

\* price * 1.3 whatever the discount, rounded to paise
OriginalPriceOfMarkup(price, discount_percent) == RoundPct(price, 130)

\* price / (1 - discount_percent/100) if discount_percent > 0 else price * 1.3,
\* rounded to paise
OriginalPrice(price, discount_percent) ==
    IF discount_percent > 0
    THEN IF discount_percent < 100
         THEN RoundHalfEven(price, 100 - discount_percent)
         ELSE RoundHalfEven(0 - price, discount_percent - 100)
    ELSE RoundPct(price, 130)

\* the range computed from the current price as it is returned, rounded
PriceRangeOfRounded(price) ==
    [min |-> RoundPct(Round2(price) * 100, 85), max |-> RoundPct(Round2(price) * 100, 115)]

\* 'price_range': {'min': round(price * 0.85, 2), 'max': round(price * 1.15, 2)}
PriceRange(price) == [min |-> RoundPct(price, 85), max |-> RoundPct(price, 115)]

\* POST /predict
Predict(data, u, jitter) ==
    /\ PriceIdle
    /\ out' =
         IF data = NoBody
         THEN PriceError("predict", data, 500, "AttributeError")
         ELSE LET brand == Get(data, "brand", "Generic")
                  category == Get(data, "category", "Shirt")
                  retailer == Get(data, "retailer", "Myntra")
                  discount_percent == Get(data, "discount_percent", 0)
                  base_price == UniformBase(BrandRange(brand), u)
                  price == Price(base_price, CategoryMult(category),
                                 RetailerAdj(retailer), jitter)
              IN  IF discount_percent = 100
                  THEN PriceError("predict", data, 500, "ZeroDivisionError")
                  ELSE [op |-> "predict", data |-> data, status |-> 200,
                        body |->
                          [success |-> TRUE,
                           item |-> [brand |-> brand, category |-> category,
                                     retailer |-> retailer],
                           prediction |->
                             [current_price |-> Round2(price),
                              original_price |->
                                  OriginalPrice(price, discount_percent),
                              price_range |-> PriceRange(price),
                              discount_percent |-> discount_percent,
                              currency |-> "INR"]],
                        price |-> price]
    /\ UNCHANGED <<authVars, raceVars, toneVars, limitVars, mlVars>>

\* str.replace(a, b) for single characters
Replace(s, a, b) == [i \in 1..Len(s) |-> IF s[i] = a THEN b ELSE s[i]]

\* get_retailer_url: the site's prefix and the product's part of the URL
GetRetailerUrl(retailer, product_name) ==
    LET product_slug == Replace(Lower(product_name), " ", "-")
        plus == Replace(product_name, " ", "+")
    IN  CASE retailer = "Myntra" -> <<"https://www.myntra.com/", product_slug>>
          [] retailer = "Flipkart" -> <<"https://www.flipkart.com/search?q=", plus>>
          [] retailer = "Amazon India" -> <<"https://www.amazon.in/s?k=", plus>>
          [] retailer = "Ajio" -> <<"https://www.ajio.com/search/?text=", plus>>
          [] retailer = "Lifestyle" ->
                <<"https://www.lifestylestores.com/in/en/search/?text=", plus>>
          [] retailer = "Westside" -> <<"https://www.westside.com/search?q=", plus>>
          [] OTHER -> <<"https://www.google.com/search?q=", product_name, retailer>>

\* the retailers compared, in the order of the loop
retailers == <<"Myntra", "Flipkart", "Amazon India", "Ajio", "Lifestyle", "Westside">>

\* a choice among multiples of five from 0 to 30
DiscountChoicesByFive == <<0, 5, 10, 15, 20, 25, 30>>

\* random.choice([0, 10, 15, 20, 25, 30, 40])
DiscountChoices == <<0, 10, 15, 20, 25, 30, 40>>

\* the discounts drawn for the six retailers: the k-th rotation of the choices
DiscountDraws == 0..6
DrawnDiscount(k, i) == DiscountChoices[((i + k) % Len(DiscountChoices)) + 1]

\* the jitters drawn for the six retailers
CompareJitters == {9500, 10000, 10500}

\* list.sort without a key change: the list as it was appended
UnsortedByPrice(seq) == seq

\* e placed after every element whose predicted_price is not greater
RECURSIVE InsertByPrice(_, _)
InsertByPrice(sorted, e) ==
    IF sorted = <<>> THEN <<e>>
    ELSE IF e.predicted_price < Head(sorted).predicted_price THEN <<e>> \o sorted
    ELSE <<Head(sorted)>> \o InsertByPrice(Tail(sorted), e)

\* comparisons.sort(key=lambda x: x['predicted_price']): a stable sort
RECURSIVE SortByPrice(_)
SortByPrice(seq) ==
    IF seq = <<>> THEN <<>>
    ELSE InsertByPrice(SortByPrice(SubSeq(seq, 1, Len(seq) - 1)), seq[Len(seq)])

CompareBodies ==
    { NoBody, EmptyObject,
      [brand |-> "H&M", category |-> "T-Shirt", product_name |-> <<"B", " ", "t">>],
      [brand |-> "Zara", category |-> "Suits", product_name |-> <<>>],
      [brand |-> "Acme", category |-> "Hat", product_name |-> <<"x">>] }

\* POST /compare
Compare(data, u, jitter, k) ==
    /\ PriceIdle
    /\ out' =
         IF data = NoBody
         THEN PriceError("compare", data, 500, "AttributeError")
         ELSE LET product_name == Get(data, "product_name", <<>>)
                  brand == Get(data, "brand", "Generic")
                  category == Get(data, "category", "Shirt")
                  base_price == UniformBase(BrandRange(brand), u)
                  appended ==
                      [i \in 1..Len(retailers) |->
                          [retailer |-> retailers[i],
                           predicted_price |->
                               Round2(Price(base_price, CategoryMult(category),
                                            RetailerAdj(retailers[i]), jitter[i])),
                           discount |-> DrawnDiscount(k, i),
                           search_url |-> GetRetailerUrl(retailers[i], product_name)]]
                  comparisons == SortByPrice(appended)
              IN  [op |-> "compare", data |-> data, status |-> 200,
                   body |-> [success |-> TRUE, product |-> product_name,
                             brand |-> brand, comparisons |-> comparisons,
                             best_deal |-> comparisons[1]],
                   price |-> base_price * CategoryMult(category) * 1000]
    /\ UNCHANGED <<authVars, raceVars, toneVars, limitVars, mlVars>>

\* the longest items list sent to /batch_predict
MaxItems == 3

\* a JSON value that is not an object (a string, a number, null)
NotAnObject == [not_an_object |-> TRUE]

IsObject(item) == "not_an_object" \notin DOMAIN item

BatchItems ==
    { [brand |-> "H&M", category |-> "T-Shirt"],
      [brand |-> "Zara", category |-> "Suits", retailer |-> "Ajio"],
      EmptyObject,
      NotAnObject }

ItemLists == UNION { [1..n -> BatchItems] : n \in 0..MaxItems }

BatchBodies == {NoBody, EmptyObject} \cup { [items |-> items] : items \in ItemLists }

\* the draws of one pass of the loop: <<u, jitter>>
BatchDraws == { <<0, 9500>>, <<2, 10500>> }

\* one pass of the loop over an item that is an object
ItemPrediction(item, draw) ==
    LET brand == Get(item, "brand", "Generic")
        category == Get(item, "category", "Shirt")
        retailer == Get(item, "retailer", "Myntra")
        base_price == UniformBase(BrandRange(brand), draw[1])
        price == Price(base_price, CategoryMult(category), RetailerAdj(retailer),
                       draw[2])
    IN  [item |-> [brand |-> brand, category |-> category],
         predicted_price |-> Round2(price),
         success |-> TRUE]

\* POST /batch_predict: item.get raises AttributeError on an item that is not
\* an object, and the only try block is the one around the whole handler
BatchPredict(data, draws) ==
    /\ PriceIdle
    /\ LET items == Get(data, "items", <<>>)
       IN  /\ data # NoBody => DOMAIN draws = 1..Len(items)
           /\ data = NoBody => draws = <<>>
           /\ out' =
                IF data = NoBody
                THEN PriceError("batch_predict", data, 500, "AttributeError")
                ELSE IF items = <<>>
                THEN PriceError("batch_predict", data, 400, "No items provided")
                ELSE IF \E i \in 1..Len(items) : ~IsObject(items[i])
                THEN PriceError("batch_predict", data, 500, "AttributeError")
                ELSE [op |-> "batch_predict", data |-> data, status |-> 200,
                      body |-> [success |-> TRUE, total_items |-> Len(items),
                                predictions |->
                                    [i \in 1..Len(items) |->
                                        ItemPrediction(items[i], draws[i])]],
                      price |-> 0]
    /\ UNCHANGED <<authVars, raceVars, toneVars, limitVars, mlVars>>

\* the caller reads the response
ReceiveResponse ==
    /\ ~PriceIdle
    /\ out' = NoOut
    /\ UNCHANGED <<authVars, raceVars, toneVars, limitVars, mlVars>>

InitPrice ==
    /\ users = <<>>
    /\ user_profiles = <<>>
    /\ jar = [c \in Clients |-> NoCookie]
    /\ clock = 0
    /\ loggedOut = NoCookie
    /\ saved = NoSaved
    /\ resp = NoResp
    /\ pre = NoPre
    /\ rq = NoRequests
    /\ dbLock = NoLock
    /\ out = NoOut
    /\ sample = NoSample
    /\ analysis = NoAnalysis
    /\ storage = NoStorage
    /\ time = 0
    /\ served = NoStorage
    /\ label_encoders = NoEncoders
    /\ best_model = NoModel
    /\ results = NoResults
    /\ returned = NoCall

\* a request is handled only when the previous response has been read, so the
\* draws are enumerated in that state only
NextPrice ==
    \/ /\ PriceIdle
       /\ \E data \in PredictBodies, u \in BaseDraws, jitter \in Jitters :
             Predict(data, u, jitter)
    \/ /\ PriceIdle
       /\ \E data \in CompareBodies, u \in BaseDraws,
             jitter \in [1..Len(retailers) -> CompareJitters], k \in DiscountDraws :
             Compare(data, u, jitter, k)
    \/ /\ PriceIdle
       /\ \E data \in BatchBodies, n \in 0..MaxItems :
             \E draws \in [1..n -> BatchDraws] : BatchPredict(data, draws)
    \/ ReceiveResponse

SpecPrice == InitPrice /\ [][NextPrice]_vars

\* the number of items of a list that are not objects
Malformed(items) == Cardinality({ i \in 1..Len(items) : ~IsObject(items[i]) })

\* the number of predictions marked success
Succeeded(predictions) ==
    Cardinality({ i \in 1..Len(predictions) : predictions[i].success })

\* C1: a /batch_predict request of N items of which exactly one is malformed
\* is answered with a success response of N predictions, N-1 marked success
\* and one marked failed, and total_items = N.
C1_BatchIsolatesFailures ==
    (/\ out.op = "batch_predict"
     /\ "items" \in DOMAIN out.data
     /\ Malformed(out.data.items) = 1)
    => /\ out.status = 200
       /\ out.body.success = TRUE
       /\ out.body.total_items = Len(out.data.items)
       /\ Len(out.body.predictions) = Len(out.data.items)
       /\ Succeeded(out.body.predictions) = Len(out.data.items) - 1

\* a /predict request with a JSON object for a body that has no brand or no
\* category
LacksRequired(o) ==
    /\ o.op = "predict"
    /\ o.data # NoBody
    /\ ("brand" \notin DOMAIN o.data \/ "category" \notin DOMAIN o.data)

Distance(a, b) == IF a >= b THEN a - b ELSE b - a

\* C7 as stated: price_range.min and max are exactly 0.85 and 1.15 times the
\* returned (rounded) current_price, rounded to two places.
C7_RangeOfRoundedPrice ==
    (out.op = "predict" /\ out.status = 200) =>
        LET p == out.body.prediction
        IN  /\ p.price_range.min = RoundPct(p.current_price * 100, 85)
            /\ p.price_range.max = RoundPct(p.current_price * 100, 115)

\* C7: price_range.min and max are 0.85 and 1.15 times the estimate before
\* it is rounded, rounded to two places; they are within 0.01 of the values
\* computed from the returned current_price, not always equal to them.
C7_RangeOfUnroundedPrice ==
    (out.op = "predict" /\ out.status = 200) =>
        LET p == out.body.prediction
        IN  /\ p.current_price = Round2(out.price)
            /\ p.price_range.min = RoundPct(out.price, 85)
            /\ p.price_range.max = RoundPct(out.price, 115)
            /\ Distance(p.price_range.min, RoundPct(p.current_price * 100, 85)) <= 1
            /\ Distance(p.price_range.max, RoundPct(p.current_price * 100, 115)) <= 1

C7_Witness ==
    /\ out.op = "predict"
    /\ out.status = 200
    /\ out.body.prediction.price_range.min
           # RoundPct(out.body.prediction.current_price * 100, 85)
    /\ out.price % 100 # 0

\* C8: the comparisons of a /compare response are in non-decreasing order of
\* predicted_price, whatever was drawn, and best_deal is the first of them.
C8_ComparisonsSorted ==
    (out.op = "compare" /\ out.status = 200) =>
        LET comparisons == out.body.comparisons
        IN  /\ \A i \in 1..(Len(comparisons) - 1) :
                   comparisons[i].predicted_price <= comparisons[i + 1].predicted_price
            /\ out.body.best_deal = comparisons[1]
            /\ \A i \in 1..Len(comparisons) :
                   out.body.best_deal.predicted_price <= comparisons[i].predicted_price

C8_Witness ==
    /\ out.op = "compare"
    /\ out.status = 200
    /\ Len(out.body.comparisons) = Len(retailers)
    /\ out.body.best_deal.retailer = "Amazon India"
    /\ out.body.comparisons[Len(retailers)].retailer = "Westside"

\* ------------------------------------------------------------------------
\* AccurateUndertoneAnalyzer (specification SpecUndertone).  A sample is the
\* skin region of a decoded image, summarised by its channel means; weights
\* and votes are in tenths, the yellowness index in thousandths.
\* ------------------------------------------------------------------------

\* Uniform 8-bit skin samples <<R, G, B, H, S, V, L, a, b>>: the colour, and
\* what cv2.cvtColor gives for it with COLOR_RGB2HSV (H in 0..179) and
\* COLOR_RGB2LAB (L scaled by 255/100, a and b offset by 128)
SampleTable ==
    { <<0, 0, 0, 0, 0, 0, 0, 128, 128>>, <<0, 0, 85, 120, 255, 85, 15, 163, 80>>,
      <<0, 0, 170, 120, 255, 170, 50, 186, 48>>, <<0, 0, 255, 120, 255, 255, 82, 207, 20>>,
      <<0, 85, 0, 60, 255, 85, 78, 89, 165>>, <<0, 85, 170, 105, 255, 170, 94, 141, 77>>,
      <<0, 85, 255, 110, 255, 255, 112, 174, 39>>, <<0, 170, 0, 60, 255, 170, 154, 64, 189>>,
      <<0, 170, 85, 75, 255, 170, 156, 72, 161>>, <<0, 170, 255, 100, 255, 255, 170, 122, 76>>,
      <<0, 255, 0, 60, 255, 255, 224, 42, 211>>, <<0, 255, 85, 70, 255, 255, 225, 46, 193>>,
      <<0, 255, 170, 80, 255, 255, 227, 59, 155>>, <<85, 0, 0, 0, 255, 85, 39, 164, 152>>,
      <<85, 0, 85, 150, 255, 85, 47, 172, 101>>, <<85, 0, 170, 135, 255, 170, 67, 190, 60>>,
      <<85, 85, 0, 30, 255, 85, 89, 118, 170>>, <<85, 85, 85, 0, 0, 85, 92, 128, 128>>,
      <<85, 85, 170, 120, 128, 170, 102, 152, 82>>, <<85, 85, 255, 120, 170, 255, 119, 179, 44>>,
      <<85, 170, 85, 60, 128, 170, 160, 85, 164>>, <<85, 170, 255, 105, 170, 255, 173, 128, 78>>,
      <<85, 255, 0, 50, 255, 255, 226, 50, 212>>, <<85, 255, 85, 60, 170, 255, 227, 54, 194>>,
      <<85, 255, 170, 75, 170, 255, 230, 66, 156>>, <<170, 0, 0, 0, 255, 170, 90, 187, 177>>,
      <<170, 0, 85, 165, 255, 170, 93, 191, 130>>, <<170, 0, 170, 150, 255, 170, 103, 200, 83>>,
      <<170, 0, 255, 140, 255, 255, 119, 215, 44>>, <<170, 85, 85, 0, 128, 170, 119, 163, 144>>,
      <<170, 85, 170, 150, 128, 170, 126, 175, 98>>, <<170, 85, 255, 135, 170, 255, 138, 193, 57>>,
      <<170, 170, 0, 30, 255, 170, 172, 112, 198>>, <<170, 170, 85, 30, 128, 170, 173, 116, 171>>,
      <<170, 170, 170, 0, 0, 170, 178, 128, 128>>, <<170, 170, 255, 120, 85, 255, 185, 147, 86>>,
      <<170, 255, 0, 40, 255, 255, 234, 74, 216>>, <<170, 255, 170, 60, 85, 255, 237, 86, 161>>,
      <<255, 0, 0, 0, 255, 255, 136, 208, 195>>, <<255, 0, 85, 170, 255, 255, 138, 210, 157>>,
      <<255, 0, 170, 160, 255, 255, 143, 216, 109>>, <<255, 0, 255, 150, 255, 255, 154, 226, 67>>,
      <<255, 85, 0, 10, 255, 255, 152, 190, 198>>, <<255, 85, 85, 0, 170, 255, 154, 192, 165>>,
      <<255, 85, 170, 165, 170, 255, 159, 199, 118>>, <<255, 85, 255, 150, 170, 255, 168, 211, 76>>,
      <<255, 170, 0, 20, 255, 255, 194, 149, 208>>, <<255, 170, 170, 0, 85, 255, 198, 159, 141>>,
      <<255, 170, 255, 150, 85, 255, 205, 172, 99>>, <<255, 255, 0, 30, 255, 255, 248, 106, 222>>,
      <<255, 255, 85, 30, 170, 255, 248, 109, 205>>, <<255, 255, 170, 30, 85, 255, 251, 116, 169>>,
      <<255, 255, 255, 0, 0, 255, 255, 128, 128>>, <<128, 128, 128, 0, 0, 128, 137, 128, 128>>,
      <<150, 138, 138, 0, 20, 150, 149, 132, 130>>, <<110, 100, 100, 0, 23, 110, 110, 132, 129>>,
      <<128, 128, 190, 120, 83, 190, 142, 143, 96>>, <<224, 172, 105, 17, 135, 224, 188, 139, 170>>,
      <<141, 85, 36, 14, 190, 141, 106, 147, 165>>, <<255, 219, 172, 17, 83, 255, 228, 134, 156>>,
      <<241, 194, 125, 18, 123, 241, 207, 136, 169>>, <<200, 150, 150, 0, 64, 200, 170, 147, 135>>,
      <<150, 120, 100, 12, 85, 150, 135, 137, 143>> }

\* an image cv2.imdecode cannot decode
Undecodable ==
    [decoded |-> FALSE, rgb |-> <<0, 0, 0>>, hsv |-> <<0, 0, 0>>, lab |-> <<0, 0, 0>>]

Samples ==
    { [decoded |-> TRUE, rgb |-> <<t[1], t[2], t[3]>>, hsv |-> <<t[4], t[5], t[6]>>,
       lab |-> <<t[7], t[8], t[9]>>] : t \in SampleTable }
    \cup {Undecodable}

\* _analyze_rgb_ratios: rb_ratio = r / (b + 1), rg_ratio = r / (g + 1)
AnalyzeRgbRatios(r, g, b) ==
    IF 100 * r > 115 * (b + 1) /\ 100 * r > 95 * (g + 1) THEN "warm"
    ELSE IF 100 * r < 105 * (b + 1) THEN "cool"
    ELSE "neutral"

\* _analyze_hsv
AnalyzeHsv(hsv) ==
    IF 15 <= hsv[1] /\ hsv[1] <= 45 /\ hsv[2] > 30 THEN "warm"
    ELSE IF 90 <= hsv[1] /\ hsv[1] <= 130 THEN "cool"
    ELSE "neutral"

\* _analyze_lab
AnalyzeLab(lab) ==
    IF lab[3] > 10 /\ lab[2] > 5 THEN "warm"
    ELSE IF lab[3] < 5 \/ (lab[3] < 10 /\ lab[2] < 5) THEN "cool"
    ELSE "neutral"

\* the yellowness before it is clamped, as the fraction num / den:
\* ((r + g - 2b) / (r + g + b + 1) + 1) / 2
YellowNum(r, g, b) == (r + g - 2 * b) + (r + g + b + 1)
YellowDen(r, g, b) == 2 * (r + g + b + 1)

\* round(_calculate_yellowness(r, g, b), 3), in thousandths
CalculateYellowness(r, g, b) ==
    IF YellowNum(r, g, b) <= 0 THEN 0
    ELSE IF YellowNum(r, g, b) >= YellowDen(r, g, b) THEN 1000
    ELSE RoundHalfEven(1000 * YellowNum(r, g, b), YellowDen(r, g, b))

\* the label the yellowness index votes for, and the weight of that vote
YellownessVote(r, g, b) ==
    IF 10 * YellowNum(r, g, b) > 6 * YellowDen(r, g, b) THEN <<"warm", 15>>
    ELSE IF 10 * YellowNum(r, g, b) < 4 * YellowDen(r, g, b) THEN <<"cool", 15>>
    ELSE <<"neutral", 10>>

Labels == {"warm", "cool", "neutral"}

\* undertone_votes after the four methods have voted
UndertoneVotes(rgb_undertone, hsv_undertone, lab_undertone, yellow) ==
    [label \in Labels |->
        (IF rgb_undertone = label THEN 20 ELSE 0)
      + (IF hsv_undertone = label THEN 15 ELSE 0)
      + (IF lab_undertone = label THEN 30 ELSE 0)
      + (IF yellow[1] = label THEN yellow[2] ELSE 0)]

\* a maximum taken over warm and cool only
FinalUndertoneOfTwo(votes) ==
    IF votes["warm"] >= votes["cool"] THEN "warm" ELSE "cool"

\* max(undertone_votes, key=undertone_votes.get): the first label, in the
\* order warm, cool, neutral, with the largest total
FinalUndertone(votes) ==
    IF votes["warm"] >= votes["cool"] /\ votes["warm"] >= votes["neutral"] THEN "warm"
    ELSE IF votes["cool"] >= votes["neutral"] THEN "cool"
    ELSE "neutral"

\* _determine_season with is_light = lightness >= 140
DetermineSeasonFrom140(undertone, lightness, confidence) ==
    LET is_light == lightness >= 140
    IN  IF undertone = "warm" THEN (IF is_light THEN "Spring" ELSE "Autumn")
        ELSE IF undertone = "cool" THEN (IF is_light THEN "Summer" ELSE "Winter")
        ELSE (IF is_light THEN "Summer" ELSE "Autumn")

\* _determine_season
DetermineSeason(undertone, lightness, confidence) ==
    LET is_light == lightness > 140
    IN  IF undertone = "warm" THEN (IF is_light THEN "Spring" ELSE "Autumn")
        ELSE IF undertone = "cool" THEN (IF is_light THEN "Summer" ELSE "Winter")
        ELSE (IF is_light THEN "Summer" ELSE "Autumn")

\* the palettes of _generate_accurate_palette, each season's in the order written
palettes ==
    [season \in {"Spring", "Summer", "Autumn", "Winter"} |->
        CASE season = "Spring" ->
               << <<"warm", <<"#FFD700", "#FF6B6B", "#FFA07A", "#98D8C8", "#F7DC6F", "#85C1E2">> >>,
                  <<"neutral", <<"#F4E4C1", "#FF9F80", "#FFB6B9", "#8FD1D7", "#F9E79F", "#A8D8EA">> >> >>
          [] season = "Summer" ->
               << <<"cool", <<"#B4A7D6", "#87CEEB", "#DDA0DD", "#E6E6FA", "#AFEEEE", "#D8BFD8">> >>,
                  <<"neutral", <<"#C5CAE9", "#90CAF9", "#E1BEE7", "#F0E68C", "#B2DFDB", "#D1C4E9">> >> >>
          [] season = "Autumn" ->
               << <<"warm", <<"#CD853F", "#D2691E", "#8B4513", "#DAA520", "#B8860B", "#BC8F8F">> >>,
                  <<"neutral", <<"#C19A6B", "#B87333", "#9C661F", "#C68E17", "#A0826D", "#D4A574">> >> >>
          [] season = "Winter" ->
               << <<"cool", <<"#000080", "#8B0000", "#4B0082", "#2F4F4F", "#DC143C", "#191970">> >>,
                  <<"neutral", <<"#2C3E50", "#8E44AD", "#C0392B", "#1C2833", "#922B21", "#4A235A">> >> >>]

DefaultPalette == <<"#667eea", "#764ba2", "#f093fb", "#f5576c", "#4facfe", "#00f2fe">>

\* the first palette written for the season, whatever the undertone
GenerateFirstPaletteOfSeason(season, undertone) ==
    IF season \in DOMAIN palettes THEN palettes[season][1][2] ELSE DefaultPalette

\* _generate_accurate_palette
GenerateAccuratePalette(season, undertone) ==
    IF season \in DOMAIN palettes
    THEN IF \E i \in 1..Len(palettes[season]) : palettes[season][i][1] = undertone
         THEN LET i == CHOOSE j \in 1..Len(palettes[season]) :
                            palettes[season][j][1] = undertone
              IN  palettes[season][i][2]
         ELSE palettes[season][1][2]
    ELSE DefaultPalette

\* the result of analyze_skin_undertone for a skin sample; an image that
\* cannot be decoded raises "Undertone analysis error"
UndertoneResult(smp) ==
    IF ~smp.decoded
    THEN [undertone |-> "error", error |-> "Undertone analysis error"]
    ELSE LET r == smp.rgb[1]
             g == smp.rgb[2]
             b == smp.rgb[3]
             rgb_undertone == AnalyzeRgbRatios(r, g, b)
             hsv_undertone == AnalyzeHsv(smp.hsv)
             lab_undertone == AnalyzeLab(smp.lab)
             undertone_votes ==
                 UndertoneVotes(rgb_undertone, hsv_undertone, lab_undertone,
                                YellownessVote(r, g, b))
             final_undertone == FinalUndertone(undertone_votes)
             total == undertone_votes["warm"] + undertone_votes["cool"]
                        + undertone_votes["neutral"]
             confidence ==
                 RoundHalfEven(1000 * undertone_votes[final_undertone], total)
             season == DetermineSeason(final_undertone, smp.lab[1], confidence)
         IN  [undertone |-> final_undertone,
              season |-> season,
              confidence |-> confidence,
              color_palette |-> GenerateAccuratePalette(season, final_undertone),
              skin_analysis |->
                  [rgb |-> smp.rgb, lab |-> smp.lab, hsv |-> smp.hsv,
                   yellowness_index |-> CalculateYellowness(r, g, b)],
              methods_agreement |->
                  [rgb |-> rgb_undertone, hsv |-> hsv_undertone,
                   lab |-> lab_undertone],
              votes |-> undertone_votes]

\* analyze_skin_undertone on the sample
AnalyzeSkinUndertone ==
    /\ analysis = NoAnalysis
    /\ analysis' = UndertoneResult(sample)
    /\ UNCHANGED sample
    /\ UNCHANGED <<authVars, raceVars, priceVars, limitVars, mlVars>>

InitUndertone ==
    /\ users = <<>>
    /\ user_profiles = <<>>
    /\ jar = [c \in Clients |-> NoCookie]
    /\ clock = 0
    /\ loggedOut = NoCookie
    /\ saved = NoSaved
    /\ resp = NoResp
    /\ pre = NoPre
    /\ rq = NoRequests
    /\ dbLock = NoLock
    /\ out = NoOut
    /\ sample \in Samples
    /\ analysis = NoAnalysis
    /\ storage = NoStorage
    /\ time = 0
    /\ served = NoStorage
    /\ label_encoders = NoEncoders
    /\ best_model = NoModel
    /\ results = NoResults
    /\ returned = NoCall

NextUndertone == AnalyzeSkinUndertone

SpecUndertone == InitUndertone /\ [][NextUndertone]_vars

\* ------------------------------------------------------------------------
\* POST /api/analyze/undertone
\* ------------------------------------------------------------------------

\* the skin sample of the image the requests carry: uniform gray
GraySample ==
    [decoded |-> TRUE, rgb |-> <<128, 128, 128>>, hsv |-> <<0, 0, 128>>,
     lab |-> <<137, 128, 128>>]

ImageBodies == { NoBody, EmptyObject, [image |-> GraySample], [image |-> Undecodable] }

AnalyzeUndertone(c, data) ==
    LET sess == OpenSession(jar[c])
    IN  /\ Idle
        /\ pre' = Snapshot
        /\ resp' =
             IF ~HasUserId(sess)
             THEN Reply("analyze", c, data, 401, ErrorBody("Not authenticated"))
             ELSE IF data = NoBody
             THEN Reply("analyze", c, data, 500, ErrorBody("AttributeError"))
             ELSE IF "image" \notin DOMAIN data
             THEN Reply("analyze", c, data, 400, ErrorBody("No image provided"))
             ELSE IF ~data.image.decoded
             THEN Reply("analyze", c, data, 500,
                        ErrorBody(UndertoneResult(data.image).error))
             ELSE Reply("analyze", c, data, 200,
                        [success |-> TRUE] @@ UndertoneResult(data.image))
        /\ UNCHANGED <<users, user_profiles, jar, clock, loggedOut, saved>>
        /\ UNCHANGED <<raceVars, priceVars, toneVars, limitVars, mlVars>>

\* ------------------------------------------------------------------------
\* Specification of the authentication / profile server
\* ------------------------------------------------------------------------

Init ==
    /\ users = <<>>
    /\ user_profiles = <<>>
    /\ jar = [c \in Clients |-> NoCookie]
    /\ clock = 0
    /\ loggedOut = NoCookie
    /\ saved = NoSaved
    /\ resp = NoResp
    /\ pre = NoPre
    /\ rq = NoRequests
    /\ dbLock = NoLock
    /\ out = NoOut
    /\ sample = NoSample
    /\ analysis = NoAnalysis
    /\ storage = NoStorage
    /\ time = 0
    /\ served = NoStorage
    /\ label_encoders = NoEncoders
    /\ best_model = NoModel
    /\ results = NoResults
    /\ returned = NoCall

Next ==
    \/ \E c \in Clients, data \in SignupBodies, salt \in Salts :
            Signup(c, data, salt) /\ UNCHANGED <<limitVars, mlVars>>
    \/ \E c \in Clients, data \in LoginBodies :
            Login(c, data) /\ UNCHANGED <<limitVars, mlVars>>
    \/ \E c \in Clients : Logout(c)
    \/ \E c \in Clients : CheckAuth(c)
    \/ \E c \in Clients, data \in ProfileBodies : SaveProfile(c, data)
    \/ \E c \in Clients : GetProfile(c)
    \/ \E c \in Clients : GetRecommendations(c)
    \/ \E c \in Clients, data \in ImageBodies : AnalyzeUndertone(c, data)
    \/ Deliver
    \/ LifetimeElapses
    \/ \E c \in Clients : Replay(c)

Spec == Init /\ [][Next]_vars

\* ------------------------------------------------------------------------
\* flask-limiter: Limiter(key_func=get_remote_address, storage_uri="memory://")
\* with its default fixed-window strategy, and the two decorated routes
\* ------------------------------------------------------------------------

MaxTime == 1

\* "per hour": the length of a window, in ticks of the variable time
Hour == 1

\* @limiter.limit("5 per hour") and @limiter.limit("10 per hour")
SignupLimit == 5
LoginLimit == 10

\* get_remote_address: request.remote_addr of each browser
RemoteAddress == [c \in Clients |-> IF c = "c1" THEN "10.0.0.1" ELSE "10.0.0.2"]

LimitSignupBodies ==
    { [email |-> <<"a">>, password |-> PwGood, full_name |-> <<"N">>],
      [email |-> <<"b">>, password |-> PwShort, full_name |-> <<"N">>] }

LimitLoginBodies ==
    { [email |-> <<"a">>, password |-> PwGood],
      [email |-> <<"a">>, password |-> PwOther] }

\* MemoryStorage.get: the counter of a key, gone once its expiry has passed
Window(key) ==
    IF key \in DOMAIN storage /\ storage[key].expiry > time
    THEN storage[key]
    ELSE [count |-> 0, expiry |-> 0]

\* a hit that never opens a window: every request starts the count afresh
HitForgetful(key, limit) == [count |-> 1, expiry |-> time + Hour]

\* MemoryStorage.incr: count the request, opening a window of one hour with
\* the first.  The storage keeps counting past the limit; every count above
\* the limit is rejected alike, so the count is kept up to limit + 1.
Hit(key, limit) ==
    LET window == Window(key)
    IN  IF window.count = 0
        THEN [count |-> 1, expiry |-> time + Hour]
        ELSE [window EXCEPT !.count = IF window.count <= limit THEN window.count + 1
                                      ELSE limit + 1]

Put(table, key, value) ==
    [k \in DOMAIN table \cup {key} |-> IF k = key THEN value ELSE table[k]]

\* werkzeug's page for the RateLimitExceeded exception: the application
\* registers no handler for it
TooManyRequests == [html |-> "429 Too Many Requests"]

\* the limiter's before_request check aborts the request with 429
RateLimitExceeded(op, c, data) ==
    /\ pre' = Snapshot
    /\ resp' = Reply(op, c, data, 429, TooManyRequests)
    /\ UNCHANGED <<users, user_profiles, jar, clock, loggedOut, saved>>
    /\ UNCHANGED <<raceVars, priceVars, toneVars>>

\* the requests handled since the window of the key opened, this one included
Served(key) == IF Window(key).count = 0 THEN 1 ELSE served[key] + 1

\* POST /api/auth/signup behind @limiter.limit("5 per hour")
LimitedSignup(c, data, salt) ==
    LET key == <<RemoteAddress[c], "signup">>
        hit == Hit(key, SignupLimit)
    IN  /\ Idle
        /\ storage' = Put(storage, key, hit)
        /\ time' = time
        /\ IF hit.count > SignupLimit
           THEN /\ RateLimitExceeded("signup", c, data)
                /\ served' = served
           ELSE /\ Signup(c, data, salt)
                /\ served' = Put(served, key, Served(key))
        /\ UNCHANGED mlVars

\* POST /api/auth/login behind @limiter.limit("10 per hour")
LimitedLogin(c, data) ==
    LET key == <<RemoteAddress[c], "login">>
        hit == Hit(key, LoginLimit)
    IN  /\ Idle
        /\ storage' = Put(storage, key, hit)
        /\ time' = time
        /\ IF hit.count > LoginLimit
           THEN /\ RateLimitExceeded("login", c, data)
                /\ served' = served
           ELSE /\ Login(c, data)
                /\ served' = Put(served, key, Served(key))
        /\ UNCHANGED mlVars

Live(table, t) == [k \in { k \in DOMAIN storage : storage[k].expiry > t } |-> table[k]]

\* time passes; the storage's timer drops the counters that have expired
TimePasses ==
    /\ Idle
    /\ time < MaxTime
    /\ time' = time + 1
    /\ storage' = Live(storage, time + 1)
    /\ served' = Live(served, time + 1)
    /\ UNCHANGED <<authVars, raceVars, priceVars, toneVars, mlVars>>

\* the server process is restarted: the counters lived in its memory, the
\* database file and the signed cookies did not
Restart ==
    /\ Idle
    /\ storage # NoStorage
    /\ storage' = NoStorage
    /\ served' = NoStorage
    /\ UNCHANGED time
    /\ UNCHANGED <<authVars, raceVars, priceVars, toneVars, mlVars>>

NextLimit ==
    \/ \E c \in Clients, data \in LimitSignupBodies, salt \in Salts :
            LimitedSignup(c, data, salt)
    \/ \E c \in Clients, data \in LimitLoginBodies : LimitedLogin(c, data)
    \/ Deliver
    \/ TimePasses
    \/ Restart

SpecLimit == Init /\ [][NextLimit]_vars

\* ------------------------------------------------------------------------
\* fashion_price_ml.py: FashionDataPreprocessor, FashionPricePredictor and
\* the encoding of the example item in main
\* ------------------------------------------------------------------------

\* categorical_cols, in the order the features are built
categorical_cols == <<"brand", "category", "material", "retailer", "season">>

\* the values the training data may hold in each column, in the order
\* LabelEncoder.fit sorts them (np.unique)
Vocabulary ==
    [brand |-> <<"H&M", "Nike", "Zara">>,
     category |-> <<"Blazer", "Jeans">>,
     material |-> <<"Cotton", "Wool">>,
     retailer |-> <<"Myntra">>,
     season |-> <<"Summer">>]

\* the training frames: per column the set of values that occur in it
Frames ==
    [brand : SUBSET {"H&M", "Nike", "Zara"} \ {{}},
     category : SUBSET {"Blazer", "Jeans"} \ {{}},
     material : SUBSET {"Cotton", "Wool"} \ {{}},
     retailer : {{"Myntra"}},
     season : {{"Summer"}}]

\* the items priced: rating in tenths
Items ==
    [brand : {"Zara", "H&M", "Gucci"}, category : {"Blazer", "Jeans"},
     material : {"Wool"}, retailer : {"Myntra", "Nordstrom"},
     season : {"Summer", "Fall"}, rating : {45}, discount_percent : {20}]

\* FashionDataPreprocessor.preprocess: a new LabelEncoder fitted per column
Preprocess(df) ==
    /\ results = NoResults
    /\ label_encoders' =
          [col \in DOMAIN Vocabulary |->
              SelectSeq(Vocabulary[col], LAMBDA v : v \in df[col])]
    /\ returned' = [op |-> "preprocess"]
    /\ UNCHANGED <<best_model, results>>
    /\ UNCHANGED <<authVars, raceVars, priceVars, toneVars, limitVars>>

\* a transform that numbers the classes from 1
TransformFromOne(classes, value) ==
    CHOOSE i \in 1..Len(classes) : classes[i] = value

\* LabelEncoder.transform([value])[0]: the position of value in classes_, from 0
Transform(classes, value) ==
    (CHOOSE i \in 1..Len(classes) : classes[i] = value) - 1

\* main: the encoded value of one categorical column of the item
Encoded(col, value) ==
    IF col \in DOMAIN label_encoders
         /\ \E i \in 1..Len(label_encoders[col]) : label_encoders[col][i] = value
    THEN Transform(label_encoders[col], value)
    ELSE 0

\* main: encoded_features, extended by rating, discount_percent and the
\* placeholder for brand_popularity
EncodedFeatures(item) ==
    [i \in 1..Len(categorical_cols) |->
        Encoded(categorical_cols[i], item[categorical_cols[i]])]
    \o <<item.rating, item.discount_percent, 100>>

\* self.models, in the order of the dict
models == <<"random_forest", "gradient_boosting", "xgboost">>

\* the mean absolute errors a fitted model may score on the test set
Maes == 1..2

\* train_all_models, one turn of its loop: the next model is fitted and scored
Fit(mae) ==
    /\ Len(results) < Len(models)
    /\ results' = Append(results, [name |-> models[Len(results) + 1], mae |-> mae])
    /\ UNCHANGED <<label_encoders, best_model, returned>>
    /\ UNCHANGED <<authVars, raceVars, priceVars, toneVars, limitVars>>

\* train_all_models left by an exception of fit or predict
FitRaises ==
    /\ Len(results) < Len(models)
    /\ results' = NoResults
    /\ returned' = [op |-> "train_all_models", raised |-> "Exception"]
    /\ UNCHANGED <<label_encoders, best_model>>
    /\ UNCHANGED <<authVars, raceVars, priceVars, toneVars, limitVars>>

\* a selection of the model with the highest mean absolute error
WorstOf(scores) ==
    scores[CHOOSE i \in 1..Len(scores) :
              /\ \A j \in 1..Len(scores) : scores[i].mae >= scores[j].mae
              /\ \A j \in 1..(i - 1) : scores[j].mae < scores[i].mae]

\* min(results.keys(), key=lambda k: results[k]['mae']): the first model, in
\* the order of the dict, with the lowest mean absolute error
BestOf(scores) ==
    scores[CHOOSE i \in 1..Len(scores) :
              /\ \A j \in 1..Len(scores) : scores[i].mae <= scores[j].mae
              /\ \A j \in 1..(i - 1) : scores[j].mae > scores[i].mae]

\* train_all_models after its loop: the best model is selected
SelectBest ==
    /\ Len(results) = Len(models)
    /\ best_model' = BestOf(results)
    /\ results' = NoResults
    /\ returned' = [op |-> "train_all_models", raised |-> "none", results |-> results]
    /\ UNCHANGED label_encoders
    /\ UNCHANGED <<authVars, raceVars, priceVars, toneVars, limitVars>>

\* the prices a fitted model may predict, in paise
Predictions == {89950, 240000}

\* the item encoded as in main and handed to predict_price
PredictPrice(item, prediction) ==
    /\ results = NoResults
    /\ returned' =
          IF best_model = NoModel
          THEN [op |-> "predict_price", item |-> item,
                features |-> EncodedFeatures(item), raised |-> "ValueError"]
          ELSE [op |-> "predict_price", item |-> item,
                features |-> EncodedFeatures(item), raised |-> "none",
                model |-> best_model, value |-> prediction]
    /\ UNCHANGED <<label_encoders, best_model, results>>
    /\ UNCHANGED <<authVars, raceVars, priceVars, toneVars, limitVars>>

\* save_model
SaveModel ==
    /\ results = NoResults
    /\ returned' =
          IF best_model = NoModel
          THEN [op |-> "save_model", raised |-> "ValueError"]
          ELSE [op |-> "save_model", raised |-> "none", model |-> best_model]
    /\ UNCHANGED <<label_encoders, best_model, results>>
    /\ UNCHANGED <<authVars, raceVars, priceVars, toneVars, limitVars>>

NextML ==
    \/ \E df \in Frames : Preprocess(df)
    \/ \E mae \in Maes : Fit(mae)
    \/ FitRaises
    \/ SelectBest
    \/ \E item \in Items, prediction \in Predictions : PredictPrice(item, prediction)
    \/ SaveModel

SpecML == Init /\ [][NextML]_vars

\* C5: the sample of uniform gray R = G = B = 128 gets a yellowness index of
\* 0.5 and the verdict 'neutral'.
C5_GraySampleNeutral ==
    (analysis # NoAnalysis /\ sample.decoded /\ sample.rgb = <<128, 128, 128>>)
    => /\ analysis.skin_analysis.yellowness_index = 500
       /\ analysis.undertone = "neutral"

\* ------------------------------------------------------------------------
\* Further claims about the authentication / profile server (specification Spec)
\* ------------------------------------------------------------------------

\* the request in flight carried a cookie that opens as the session of a user:
\* signed by a signup or login response (or re-signed since) and not expired
CarriesSession == resp.cookie.kind = "signed" /\ resp.cookie.iat = clock

\* C11: /api/profile/get and /api/profile/save answer 401 exactly when the
\* request carries no session, and then leave the profile store unchanged;
\* with a session, which always names a registered user, get is answered 200
\* and so is save with a JSON object for a body.  A session set by signup
\* serves as one set by login.
C11_ProfileNeedsSession ==
    resp.op \in {"get", "save"} =>
        /\ resp.status = 401 <=> ~CarriesSession
        /\ ~CarriesSession => user_profiles = pre.user_profiles
        /\ CarriesSession =>
              /\ resp.cookie.user_id \in 1..Len(users)
              /\ users[resp.cookie.user_id].email = resp.cookie.email
              /\ (resp.op = "get" \/ resp.data # NoBody) => resp.status = 200

\* C11 witness: a profile is served to a session set by signup, its user
\* never having logged in
C11_Witness ==
    /\ resp.op = "get"
    /\ resp.status = 200
    /\ CarriesSession
    /\ users[resp.cookie.user_id].last_login = NullTime

\* a request presenting a fresh signed session is accepted by /api/auth/check
\* and the profile endpoints, whatever logins and logouts came before
SessionAccepted ==
    (resp.op \in {"check", "get", "save"} /\ CarriesSession) => resp.status # 401

\* handling a request and delivering its response leave the cookie of every
\* client other than the requesting one as it was
OthersKeepSession ==
    \A c \in Clients :
        (resp' # resp /\ c # (IF Idle THEN resp'.client ELSE resp.client))
        => jar'[c] = jar[c] /\ clock' = clock

\* C12: sessions of one user on several clients are independent: each is
\* accepted on its own, and a login or logout of one client does not change
\* the session another client holds.
C12_ConcurrentSessions == [](SessionAccepted) /\ [][OthersKeepSession]_vars

\* C12 witness: c1 has logged out (its cookie is deleted) and c2, holding a
\* session of the same user, is accepted by /api/auth/check
C12_Witness ==
    /\ resp.op = "check"
    /\ resp.client = "c2"
    /\ resp.status = 200
    /\ CarriesSession
    /\ jar["c1"] = NoCookie
    /\ loggedOut # NoCookie
    /\ loggedOut.user_id = resp.cookie.user_id
    /\ users[resp.cookie.user_id].last_login # NullTime

\* the columns of user_profiles that hold text, and those that hold JSON
TextColumns == {"gender", "body_type", "undertone", "season"}
JsonColumns == {"measurements", "color_palette", "skin_analysis", "preferences"}

\* the row holds every value the body carries
HoldsSaved(row, data) ==
    /\ \A k \in TextColumns \cap DOMAIN data : row[k] = data[k]
    /\ \A k \in JsonColumns \cap DOMAIN data :
          row[k] # NullText /\ JsonLoads(row[k]) = data[k]

LacksCredentials(data) ==
    \/ "email" \notin DOMAIN data \/ Strip(data.email) = <<>>
    \/ "password" \notin DOMAIN data \/ data.password = <<>>

\* the signup body carries a password shorter than 8 characters
ShortPassword(data) == "password" \in DOMAIN data /\ Len(data.password) < 8

\* the signup body lacks a name (blank counts)
LacksName(data) == "full_name" \notin DOMAIN data \/ Strip(data.full_name) = <<>>

\* the signup in flight was answered 400 and created no row and no session
SignupRejected ==
    /\ resp.status = 400
    /\ users = pre.users
    /\ user_profiles = pre.user_profiles
    /\ SessionAfter(resp.client) = OpenSession(resp.cookie)

\* C14 as stated: a signup without e-mail, password or name, or with a
\* password shorter than 8, is answered 400 and creates no user row, no
\* profile row and no session.
C14_SignupValidatesName ==
    (/\ resp.op = "signup"
     /\ resp.data # NoBody
     /\ (LacksCredentials(resp.data) \/ ShortPassword(resp.data) \/ LacksName(resp.data)))
    => SignupRejected

\* C14: a signup without e-mail or password, or with a password shorter than
\* 8, is answered 400 and creates no user row, no profile row and no session.
\* The name is not validated: a signup that only lacks a name is answered 201
\* (409 if the e-mail is registered) and the user is stored with an empty name.
C14_SignupValidatesCredentials ==
    (resp.op = "signup" /\ resp.data # NoBody) =>
        IF LacksCredentials(resp.data) \/ ShortPassword(resp.data)
        THEN SignupRejected
        ELSE /\ resp.status \in {201, 409}
             /\ (resp.status = 201 /\ LacksName(resp.data)) =>
                   /\ Len(users) = Len(pre.users) + 1
                   /\ users[Len(users)].full_name = <<>>
                   /\ resp.body.user.full_name = <<>>

\* C14 witness: a signup without a name was answered 201
C14_Witness ==
    /\ resp.op = "signup"
    /\ resp.data = [email |-> <<"b">>, password |-> PwOther]
    /\ resp.status = 201
    /\ users[Len(users)].email = <<"b">>

\* C15: /api/recommendations/get with a session is answered 400 (success
\* false) when the user's profile row is absent or its body_type is NULL or
\* empty, and 200 with a recommendations block otherwise; so it is 400 for a
\* user who has saved no body_type, and again after a save that omits it.
C15_RecommendationsNeedBodyType ==
    (resp.op = "recommend" /\ CarriesSession) =>
        LET mine == { i \in 1..Len(user_profiles) :
                         user_profiles[i].user_id = resp.cookie.user_id }
        IN  IF mine = {} \/ \E i \in mine : user_profiles[i].body_type \in {NULL, ""}
            THEN resp.status = 400 /\ resp.body.success = FALSE
            ELSE /\ resp.status = 200
                 /\ resp.body.success = TRUE
                 /\ "recommendations" \in DOMAIN resp.body
                 /\ \A i \in mine :
                       resp.body.user_profile.body_type = user_profiles[i].body_type

\* C15 witness: the user's last save carried no body_type, and the request
\* is answered 400
C15_Witness ==
    /\ resp.op = "recommend"
    /\ CarriesSession
    /\ resp.status = 400
    /\ \E i \in 1..Len(user_profiles) :
          /\ user_profiles[i].user_id = resp.cookie.user_id
          /\ user_profiles[i].season = "Winter"
          /\ user_profiles[i].body_type = NULL

\* ------------------------------------------------------------------------
\* Further claims about the price service (specification SpecPrice)
\* ------------------------------------------------------------------------

\* the /predict request in flight names a brand, a category and a retailer
\* and its discount does not divide by zero
NamesAllThree(o) ==
    /\ o.op = "predict"
    /\ o.data # NoBody
    /\ {"brand", "category", "retailer"} \subseteq DOMAIN o.data
    /\ Get(o.data, "discount_percent", 0) # 100

\* C16: /predict answers 200 for any brand, category and retailer; a brand
\* outside the table is priced from the range (500, 2000), a category or
\* retailer outside its table with multiplier 1.0, and known values with
\* their table entries.
C16_UnknownValuesFallBack ==
    NamesAllThree(out) =>
        LET brand == out.data.brand
            category == out.data.category
            retailer == out.data.retailer
            range == IF brand \in DOMAIN BRAND_PRICES
                     THEN BRAND_PRICES[brand] ELSE <<500, 2000>>
            cat10 == IF category \in DOMAIN CATEGORY_MULTIPLIERS
                     THEN CATEGORY_MULTIPLIERS[category] ELSE 10
            ret100 == IF retailer \in DOMAIN RETAILER_ADJUSTMENTS
                      THEN RETAILER_ADJUSTMENTS[retailer] ELSE 100
        IN  /\ out.status = 200
            /\ out.body.success = TRUE
            /\ out.body.item = [brand |-> brand, category |-> category,
                                retailer |-> retailer]
            /\ \E u \in BaseDraws, jitter \in Jitters :
                   out.price = Price(UniformBase(range, u), cat10, ret100, jitter)
            /\ out.body.prediction.current_price = Round2(out.price)

\* C16 witness: brand, category and retailer all unknown, answered 200 with
\* the price 500.00 (the low end of the fallback range, no jitter)
C16_Witness ==
    /\ NamesAllThree(out)
    /\ out.data.brand = "Acme"
    /\ out.data.category = "Hat"
    /\ out.data.retailer = "Kart"
    /\ out.status = 200
    /\ out.body.prediction.current_price = 50000

\* the multiplier product of a /predict request, in thousandths
Multipliers(data) ==
    CategoryMult(Get(data, "category", "Shirt"))
        * RetailerAdj(Get(data, "retailer", "Myntra"))

\* C17: for a brand of the table, current_price lies inside
\* [min * category_mult * retailer_mult * 0.9025,
\*  max * category_mult * retailer_mult * 1.1025], whatever is drawn.
\* (Both sides are scaled by 40000 / 100: 0.9025 = 361/400 and
\* 1.1025 = 441/400, and every bound of the table is a multiple of 100.)
C17_PriceInEnvelope ==
    (/\ out.op = "predict"
     /\ out.status = 200
     /\ "brand" \in DOMAIN out.data
     /\ out.data.brand \in DOMAIN BRAND_PRICES)
    => LET range == BRAND_PRICES[out.data.brand]
           m == Multipliers(out.data)
           paise == out.body.prediction.current_price
       IN  /\ (range[1] \div 100) * m * 361 <= paise * 40
           /\ paise * 40 <= (range[2] \div 100) * m * 441

\* C17 witness: Van Heusen, priced as a Shirt at Myntra, at the low end of
\* its range with the lowest jitter: 608.00, inside [577.60, 2205.00]
C17_Witness ==
    /\ out.op = "predict"
    /\ out.status = 200
    /\ out.data = [brand |-> "Van Heusen"]
    /\ out.body.prediction.current_price = 60800
    /\ (BRAND_PRICES["Van Heusen"][1] \div 100) * Multipliers(out.data) * 361
           = 57760 * 40
    /\ (BRAND_PRICES["Van Heusen"][2] \div 100) * Multipliers(out.data) * 441
           = 220500 * 40

\* ------------------------------------------------------------------------
\* C18: the users table only grows.  Whatever request the server has just
\* handled (signup, login, logout, check, profile save or get, undertone
\* analysis, recommendations), every user row that existed before the
\* request is still there with the same id, email, password_hash, full_name
\* and created_at; only a signup adds a row; and a row's last_login differs
\* from before only when the request was a successful login of that very
\* user.
\* ------------------------------------------------------------------------

Operations ==
    { "signup", "login", "logout", "check", "save", "get", "analyze", "recommend" }

C18_UsersOnlyGrow ==
    ~Idle =>
        /\ resp.op \in Operations
        /\ Len(users) >= Len(pre.users)
        /\ Len(users) > Len(pre.users) => resp.op = "signup"
        /\ \A i \in 1..Len(pre.users) :
             /\ [users[i] EXCEPT !.last_login = NullTime]
                    = [pre.users[i] EXCEPT !.last_login = NullTime]
             /\ users[i].last_login # pre.users[i].last_login =>
                    /\ resp.op = "login"
                    /\ resp.status = 200
                    /\ resp.body.user.id = users[i].id

\* a second login of one of two registered users: her last_login moves, the
\* other user's row has never been touched
C18_Witness ==
    /\ resp.op = "login"
    /\ resp.status = 200
    /\ Len(users) = 2
    /\ Len(pre.users) = 2
    /\ \E i, j \in 1..2 :
         /\ resp.body.user.id = users[i].id
         /\ pre.users[i].last_login \notin {NullTime, clock}
         /\ users[i].last_login = clock
         /\ users[i].password_hash = pre.users[i].password_hash
         /\ j # i
         /\ users[j].last_login = NullTime

\* ------------------------------------------------------------------------
\* C19: rate limiting is a counter in the server process, keyed by client
\* address.  Within one window of an hour the server handles at most 5
\* signup and at most 10 login requests of one address; a request is
\* answered 429 exactly when its address has used up the window's quota for
\* that endpoint, and then neither table changes; a
\* request changes no counter of another address; and a restart of the
\* process clears every counter.
\* ------------------------------------------------------------------------

Quota(key) == IF key[2] = "signup" THEN SignupLimit ELSE LoginLimit

ServedSoFar(key) == IF key \in DOMAIN served THEN served[key] ELSE 0

WithinQuota == \A key \in DOMAIN served : served[key] <= Quota(key)

RequestLimited ==
    (Idle /\ resp' # NoResp) =>
        LET key == <<RemoteAddress[resp'.client], resp'.op>>
        IN  /\ resp'.status = 429 <=> ServedSoFar(key) = Quota(key)
            /\ resp'.status = 429 =>
                  /\ users' = users
                  /\ user_profiles' = user_profiles
                  /\ served' = served
            /\ resp'.status # 429 => served'[key] = ServedSoFar(key) + 1
            /\ \A k \in DOMAIN storage \ {key} :
                  /\ k \in DOMAIN storage'
                  /\ storage'[k] = storage[k]
                  /\ served'[k] = served[k]

RestartResets ==
    (time' = time /\ resp' = resp /\ storage' # storage) =>
        /\ storage' = NoStorage
        /\ served' = NoStorage

C19_RateLimited ==
    /\ []WithinQuota
    /\ [][RequestLimited /\ RestartResets]_vars

\* in a second window, the first address has had five rejected signups
\* handled and its sixth, a valid one for an unregistered email, is answered
\* 429 and registers nobody, while the other address has had logins handled
C19_Witness ==
    /\ time > 0
    /\ resp.op = "signup"
    /\ resp.client = "c1"
    /\ resp.status = 429
    /\ resp.data.password = PwGood
    /\ users = <<>>
    /\ served[<<"10.0.0.1", "signup">>] = SignupLimit
    /\ <<"10.0.0.2", "login">> \in DOMAIN served
    /\ storage[<<"10.0.0.2", "login">>].count <= LoginLimit

\* ------------------------------------------------------------------------
\* C20: the analyzer's verdict is a label of {warm, cool, neutral} whose
\* weighted vote total is the highest: the RGB method's label counts 2.0,
\* the HSV method's 1.5, the Lab method's 3.0, and the yellowness index
\* 1.5 for warm or cool and 1.0 for neutral.  No other label has a strictly
\* larger total, and the confidence is the verdict's share of the total
\* weight, as a percentage in (0, 100] rounded to one decimal.
\* (Weights in tenths, confidence in tenths of a percent.)
\* ------------------------------------------------------------------------

\* the label the yellowness index of the sample stands for
YellowLabel ==
    LET num == YellowNum(sample.rgb[1], sample.rgb[2], sample.rgb[3])
        den == YellowDen(sample.rgb[1], sample.rgb[2], sample.rgb[3])
    IN  IF 10 * num > 6 * den THEN "warm"
        ELSE IF 10 * num < 4 * den THEN "cool"
        ELSE "neutral"

Tally(label) ==
    LET agreed == analysis.methods_agreement
    IN    (IF agreed.rgb = label THEN 20 ELSE 0)
        + (IF agreed.hsv = label THEN 15 ELSE 0)
        + (IF agreed.lab = label THEN 30 ELSE 0)
        + (IF YellowLabel = label THEN (IF label = "neutral" THEN 10 ELSE 15) ELSE 0)

TotalWeight == Tally("warm") + Tally("cool") + Tally("neutral")

C20_VerdictHasMostVotes ==
    (analysis # NoAnalysis /\ sample.decoded) =>
        /\ analysis.undertone \in Labels
        /\ \A label \in Labels : Tally(label) <= Tally(analysis.undertone)
        /\ TotalWeight \in {75, 80}
        /\ analysis.confidence > 0
        /\ analysis.confidence <= 1000
        /\ 2 * Distance(analysis.confidence * TotalWeight,
                        1000 * Tally(analysis.undertone)) <= TotalWeight

\* the Lab method, the heaviest, is outvoted: the verdict is neutral with
\* less than the whole weight behind it
C20_Witness ==
    /\ analysis # NoAnalysis
    /\ sample.decoded
    /\ analysis.undertone = "neutral"
    /\ analysis.methods_agreement.lab # "neutral"
    /\ Tally("neutral") > Tally(analysis.methods_agreement.lab)
    /\ analysis.confidence < 1000

\* ------------------------------------------------------------------------
\* C21: the season is a total function of the verdict and of whether the
\* lightness is strictly greater than 140: warm gives Spring when light and
\* Autumn otherwise, cool gives Summer when light and Winter otherwise,
\* neutral gives Summer when light and Autumn otherwise; the confidence
\* never matters.  Stated for every verdict, every 8-bit lightness and
\* every confidence, and for the season each analysis returns.
\* ------------------------------------------------------------------------

SeasonOf(verdict, is_light) ==
    CASE verdict = "warm" /\ is_light -> "Spring"
      [] verdict = "warm" /\ ~is_light -> "Autumn"
      [] verdict = "cool" /\ is_light -> "Summer"
      [] verdict = "cool" /\ ~is_light -> "Winter"
      [] verdict = "neutral" /\ is_light -> "Summer"
      [] verdict = "neutral" /\ ~is_light -> "Autumn"

Lightnesses == 0..255

Confidences == {0, 333, 375, 1000}

C21_SeasonOfVerdictAndLightness ==
    /\ \A verdict \in Labels, lightness \in Lightnesses, confidence \in Confidences :
          DetermineSeason(verdict, lightness, confidence)
              = SeasonOf(verdict, lightness > 140)
    /\ (analysis # NoAnalysis /\ sample.decoded) =>
          analysis.season = SeasonOf(analysis.undertone, sample.lab[1] > 140)

\* a light sample with a neutral verdict carried by part of the weight only:
\* its season is Summer
C21_Witness ==
    /\ analysis # NoAnalysis
    /\ sample.decoded
    /\ analysis.undertone = "neutral"
    /\ sample.lab[1] > 140
    /\ analysis.confidence < 1000
    /\ analysis.season = "Summer"

\* ------------------------------------------------------------------------
\* Further claims about the price service (specification SpecPrice)
\* ------------------------------------------------------------------------

\* paise is x, given in 1/10000 rupee, rounded to the nearest paisa
RoundedToPaise(paise, x) == 2 * Distance(paise * 100, x) <= 100

\* C22: in a successful /predict response, original_price follows the
\* two-branch rule on the estimate current_price is rounded from: for a
\* discount_percent d > 0 it is price / (1 - d/100), and for d absent, zero
\* or negative it is price * 1.3; discount_percent is echoed as received
\* (0 when absent).  All prices rounded to paise.
C22_OriginalPriceRule ==
    (out.op = "predict" /\ out.status = 200) =>
        LET prediction == out.body.prediction
            d == IF "discount_percent" \in DOMAIN out.data
                 THEN out.data.discount_percent ELSE 0
            rupees == out.price \div 10000
            rest == out.price % 10000
        IN  /\ prediction.discount_percent = d
            /\ RoundedToPaise(prediction.current_price, out.price)
            /\ d > 0 =>
                  2 * Distance(prediction.original_price * (100 - d), out.price)
                      <= Distance(100, d)
            /\ d <= 0 =>
                  2 * Distance((prediction.original_price - rupees * 130) * 10000,
                               rest * 130) <= 10000

\* both branches have been taken: here the first, with a discount of 25
C22_Witness ==
    /\ out.op = "predict"
    /\ out.status = 200
    /\ "discount_percent" \in DOMAIN out.data
    /\ out.data.discount_percent = 25
    /\ out.body.prediction.discount_percent = 25
    /\ out.body.prediction.original_price > out.body.prediction.current_price
    /\ out.body.prediction.original_price # RoundPct(out.price, 130)

\* C23: whenever /compare returns a comparisons list, the list has exactly
\* one entry for each of Myntra, Flipkart, Amazon India, Ajio, Lifestyle and
\* Westside and no other entry; every entry's discount is one of 0, 10, 15,
\* 20, 25, 30, 40; and every predicted_price is, up to its rounding to
\* paise, within [0.95, 1.05] times the retailer's multiplier times the one
\* brand x category base price of the request.  So it is for every
\* product_name, the empty one included.
C23_ComparisonsComplete ==
    (out.op = "compare" /\ out.status = 200) =>
        LET comparisons == out.body.comparisons
            base10 == out.price \div 1000
        IN  /\ Len(comparisons) = 6
            /\ \A name \in {"Myntra", "Flipkart", "Amazon India", "Ajio",
                            "Lifestyle", "Westside"} :
                  Cardinality({ i \in 1..Len(comparisons) :
                                    comparisons[i].retailer = name }) = 1
            /\ \A i \in 1..Len(comparisons) :
                  LET entry == comparisons[i]
                      mult == RETAILER_ADJUSTMENTS[entry.retailer]
                  IN  /\ entry.discount \in {0, 10, 15, 20, 25, 30, 40}
                      /\ 200 * entry.predicted_price + 100 >= base10 * mult * 19
                      /\ 200 * entry.predicted_price - 100 <= base10 * mult * 21

\* a comparison for the empty product name, with differing discounts and
\* a best deal that is not the first retailer of the loop
C23_Witness ==
    /\ out.op = "compare"
    /\ out.status = 200
    /\ out.body.product = <<>>
    /\ Len(out.body.comparisons) = 6
    /\ out.body.best_deal.retailer = "Flipkart"
    /\ out.body.best_deal.search_url[2] = <<>>
    /\ \E i, j \in 1..6 :
          out.body.comparisons[i].discount # out.body.comparisons[j].discount

\* ------------------------------------------------------------------------
\* Claims about the learned-model pipeline (specification SpecML)
\* ------------------------------------------------------------------------

\* C24: the feature vector built for an item has length 8 and is, in this
\* order, the encoded brand, category, material, retailer and season, then
\* rating, discount_percent and brand_popularity.  A categorical value that
\* is in the training vocabulary of its column is encoded as its index
\* there, counted from 0; a value that is not, or a column without a fitted
\* encoder, is encoded as 0 and raises nothing.
C24_FeatureEncoding ==
    returned.op = "predict_price" =>
        LET features == returned.features
            item == returned.item
            names == <<"brand", "category", "material", "retailer", "season">>
        IN  /\ Len(features) = 8
            /\ \A i \in 1..5 :
                  LET col == names[i]
                      classes == IF col \in DOMAIN label_encoders
                                 THEN label_encoders[col] ELSE <<>>
                  IN  /\ \A k \in 1..Len(classes) :
                            classes[k] = item[col] => features[i] = k - 1
                      /\ (\A k \in 1..Len(classes) : classes[k] # item[col])
                            => features[i] = 0
            /\ features[6] = item.rating
            /\ features[7] = item.discount_percent
            /\ features[8] = 100

\* the example of main: Zara, Blazer and Wool are in the vocabulary,
\* Nordstrom and Fall are not
C24_Witness ==
    /\ returned.op = "predict_price"
    /\ returned.raised = "none"
    /\ label_encoders # NoEncoders
    /\ label_encoders.brand = <<"H&M", "Nike", "Zara">>
    /\ returned.item.brand = "Zara"
    /\ returned.item.retailer = "Nordstrom"
    /\ returned.item.season = "Fall"
    /\ returned.features = <<2, 0, 1, 0, 0, 45, 20, 100>>

\* ------------------------------------------------------------------------
\* C25: at every moment every user row has exactly one user_profiles row
\* and every user_profiles row belongs to an existing user.  A signup
\* answered 201 has added one user row and that user's empty profile row;
\* a signup answered otherwise has added neither.
\* ------------------------------------------------------------------------

OneProfilePerUser ==
    /\ \A i \in 1..Len(users) :
          Cardinality({ j \in 1..Len(user_profiles) :
                            user_profiles[j].user_id = users[i].id }) = 1
    /\ \A j \in 1..Len(user_profiles) :
          \E i \in 1..Len(users) : users[i].id = user_profiles[j].user_id

SignupAllOrNothing ==
    resp.op = "signup" =>
        IF resp.status = 201
        THEN /\ Len(users) = Len(pre.users) + 1
             /\ Len(user_profiles) = Len(pre.user_profiles) + 1
             /\ SubSeq(users, 1, Len(pre.users)) = pre.users
             /\ SubSeq(user_profiles, 1, Len(pre.user_profiles)) = pre.user_profiles
             /\ users[Len(users)].id = resp.body.user.id
             /\ user_profiles[Len(user_profiles)].user_id = resp.body.user.id
             /\ user_profiles[Len(user_profiles)].gender = NULL
             /\ user_profiles[Len(user_profiles)].body_type = NULL
        ELSE /\ users = pre.users
             /\ user_profiles = pre.user_profiles

C25_OneProfilePerUser == OneProfilePerUser /\ SignupAllOrNothing

\* the second signup has succeeded after the first user saved a profile:
\* two users, two profile rows, the new one empty
C25_Witness ==
    /\ resp.op = "signup"
    /\ resp.status = 201
    /\ Len(users) = 2
    /\ Len(user_profiles) = 2
    /\ user_profiles[1].gender # NULL
    /\ user_profiles[2].user_id = users[2].id
    /\ user_profiles[2].gender = NULL

\* ------------------------------------------------------------------------
\* C26: round trip.  /api/profile/get answered for a user who has saved a
\* profile returns, for each of gender, body_type, undertone, season,
\* measurements, color_palette, skin_analysis and preferences that the
\* user's most recent successful save carried, exactly the value carried;
\* saves of other users in between do not change it.
\* ------------------------------------------------------------------------

ProfileFields ==
    {"gender", "body_type", "undertone", "season",
     "measurements", "color_palette", "skin_analysis", "preferences"}

RowOfRequest(table) ==
    table[CHOOSE i \in 1..Len(table) : table[i].user_id = resp.cookie.user_id]

C27_SavePreservesOmitted ==
    (resp.op = "save" /\ resp.status = 200) =>
        \A field \in ProfileFields \ DOMAIN resp.data :
            RowOfRequest(user_profiles)[field] = RowOfRequest(pre.user_profiles)[field]

\* C27 as the code has it: a successful /api/profile/save writes all eight
\* profile fields.  A field the body omits is set to null if it is gender,
\* body_type, undertone or season, and to the serialized empty default if
\* it is measurements ({}), color_palette ([]), skin_analysis ({}) or
\* preferences ({}); what it held before is lost.
C27_SaveResetsOmitted ==
    (resp.op = "save" /\ resp.status = 200) =>
        LET row == RowOfRequest(user_profiles)
            omitted == ProfileFields \ DOMAIN resp.data
        IN  /\ \A field \in omitted \cap {"gender", "body_type", "undertone", "season"} :
                  row[field] = NULL
            /\ \A field \in omitted \cap {"measurements", "skin_analysis", "preferences"} :
                  row[field] = <<"json", [t |-> "dict"]>>
            /\ "color_palette" \in omitted =>
                  row.color_palette = <<"json", [t |-> "list"]>>

\* a save of undertone and season only, by a user whose profile held a
\* gender, a body type and measurements: they are gone
C27_Witness ==
    /\ resp.op = "save"
    /\ resp.status = 200
    /\ resp.data = [undertone |-> "cool", season |-> "Winter"]
    /\ RowOfRequest(pre.user_profiles).gender = "female"
    /\ RowOfRequest(pre.user_profiles).body_type = "Hourglass"
    /\ RowOfRequest(pre.user_profiles).measurements # <<"json", [t |-> "dict"]>>
    /\ RowOfRequest(user_profiles).gender = NULL
    /\ RowOfRequest(user_profiles).body_type = NULL
    /\ RowOfRequest(user_profiles).undertone = "cool"

\* ------------------------------------------------------------------------
\* C28: for every discount_percent in 0..100 inclusive (0 when the body
\* carries none), /predict answers with success, never with a 500, and the
\* original_price of the answer is at least its current_price.
\* ------------------------------------------------------------------------
C28_PredictSucceedsUpToFullDiscount ==
    (out.op = "predict" /\ out.data # NoBody
        /\ Get(out.data, "discount_percent", 0) \in 0..100) =>
        /\ out.status = 200
        /\ out.body.success
        /\ out.body.prediction.original_price >= out.body.prediction.current_price

\* ------------------------------------------------------------------------
\* C29: the palette fallbacks are unreachable.  For every verdict and every
\* lightness, the season of _determine_season is a season of the palette
\* table and has an entry for the verdict, and the palette returned is the
\* six colour codes of that entry: the first palette of the season is
\* returned only where it is the verdict's own, and the generic default
\* never.  Stated for all (verdict, lightness) pairs and for the palette
\* each analysis returns.
\* ------------------------------------------------------------------------

\* the positions of the (season, verdict) entries of the palette table
ExactEntries(season, verdict) ==
    IF season \in DOMAIN palettes
    THEN {i \in 1..Len(palettes[season]) : palettes[season][i][1] = verdict}
    ELSE {}

\* palette is the six colour codes of the one (season, verdict) entry
IsExactEntry(palette, season, verdict) ==
    /\ Cardinality(ExactEntries(season, verdict)) = 1
    /\ \A i \in ExactEntries(season, verdict) : palette = palettes[season][i][2]
    /\ Len(palette) = 6
    /\ palette # DefaultPalette

C29_PaletteIsExactEntry ==
    /\ \A verdict \in Labels, lightness \in Lightnesses, confidence \in Confidences :
          LET season == DetermineSeason(verdict, lightness, confidence)
          IN  IsExactEntry(GenerateAccuratePalette(season, verdict), season, verdict)
    /\ (analysis # NoAnalysis /\ sample.decoded) =>
          IsExactEntry(analysis.color_palette, analysis.season, analysis.undertone)

\* a deep sample with a neutral verdict: its palette is Autumn's neutral
\* one, the second written, and not the warm one written first
C29_Witness ==
    /\ analysis # NoAnalysis
    /\ sample.decoded
    /\ analysis.undertone = "neutral"
    /\ analysis.season = "Autumn"
    /\ analysis.color_palette
         = <<"#C19A6B", "#B87333", "#9C661F", "#C68E17", "#A0826D", "#D4A574">>
    /\ analysis.color_palette # palettes["Autumn"][1][2]

\* ------------------------------------------------------------------------
\* C30: the lifecycle of FashionPricePredictor.  predict_price and save_model
\* raise ValueError in every state reached before train_all_models has
\* completed; when train_all_models completes, best_model is the one of the
\* three trained candidates with the lowest mean absolute error; and from
\* then on both operations succeed.
\* ------------------------------------------------------------------------

\* no train_all_models has completed: there is no best model
Untrained == best_model = NoModel

\* the two guarded operations raise exactly while untrained, and a training
\* that has just completed has selected a candidate of lowest error
LifecycleState ==
    /\ returned.op \in {"predict_price", "save_model"} =>
          /\ Untrained => returned.raised = "ValueError"
          /\ ~Untrained => /\ returned.raised = "none"
                           /\ returned.model = best_model
    /\ (returned.op = "train_all_models" /\ returned.raised = "none") =>
          /\ ~Untrained
          /\ Len(returned.results) = 3
          /\ \A i \in 1..3 : returned.results[i].name = models[i]
          /\ \E i \in 1..3 : returned.results[i] = best_model
          /\ \A i \in 1..3 : best_model.mae <= returned.results[i].mae

\* only a train_all_models that completes sets best_model, and nothing
\* unsets it
LifecycleStep ==
    /\ best_model' # best_model =>
          /\ returned'.op = "train_all_models"
          /\ returned'.raised = "none"
    /\ ~Untrained => best_model' # NoModel

C30_PredictorLifecycle ==
    /\ Untrained
    /\ []LifecycleState
    /\ [][LifecycleStep]_vars

\* after a training in which only the last candidate scored the lowest
\* error, save_model succeeds and saves that candidate
C30_Witness ==
    /\ returned.op = "save_model"
    /\ returned.raised = "none"
    /\ returned.model = [name |-> "xgboost", mae |-> 1]
    /\ best_model = [name |-> "xgboost", mae |-> 1]

====
